---- MODULE Spec2Model ----
(***************************************************************************)
(* ipthc: response parser (parser.go), paginating API client in its two    *)
(* code iterations (client.go: queryWithCallback, streaming;               *)
(* examples/usage.sh: queryWithPagination, string-returning), the          *)
(* rate-limited request path makeRequest, the input validator, the error   *)
(* logger, and main from its flags to its exit code.                       *)
(*                                                                         *)
(* Text is modelled at token level.  A response body is a sequence of      *)
(* lines (strings.Split(body, "\n")); a line is a sequence of tokens:      *)
(*   sp    one run of whitespace (space, tab, \r)                          *)
(*   ansi  one ANSI colour escape  \x1b[...m                               *)
(*   txt   a word without whitespace, escape or leading ';'                *)
(*   cmt   comment text starting with ';' that matches no pattern          *)
(*   ent   the text ";;Entries: <a>/<b>", a and b being digit strings      *)
(*   next  the text ";;Next Page: <url>", url being an http(s) URL         *)
(* A URL is the tuple <<base, path, l>>, l = 0 standing for "no ?l=".      *)
(***************************************************************************)
EXTENDS Integers, Sequences, FiniteSets, TLC

\* ------------------------------------------------------------------ bounds
MaxLines == 3
MaxQueries == 2
MaxClock == 2
MaxInputs == 2
MaxChars == 4
MaxLogs == 3

\* ------------------------------------------------------- program constants
MaxPages == 100
StatusOK == 200

\* ------------------------------------------------------------------ tokens
NoURL == << >>
NoDigits == << >>

Tok(t, s, a, b, u) == [t |-> t, s |-> s, a |-> a, b |-> b, u |-> u]
Sp == Tok("sp", "", NoDigits, NoDigits, NoURL)
Ansi == Tok("ansi", "", NoDigits, NoDigits, NoURL)
Txt(s) == Tok("txt", s, NoDigits, NoDigits, NoURL)
Cmt(s) == Tok("cmt", s, NoDigits, NoDigits, NoURL)
Ent(a, b) == Tok("ent", "", a, b, NoURL)
NextTok(u) == Tok("next", "", NoDigits, NoDigits, u)

\* ------------------------------------------------------------- parser.go
\* strings.TrimSpace: drop leading and trailing whitespace
RECURSIVE TrimLeft(_)
TrimLeft(line) ==
    IF line # << >> /\ Head(line).t = "sp" THEN TrimLeft(Tail(line)) ELSE line

RECURSIVE TrimRight(_)
TrimRight(line) ==
    IF line # << >> /\ line[Len(line)].t = "sp"
    THEN TrimRight(SubSeq(line, 1, Len(line) - 1))
    ELSE line

TrimSpace(line) == TrimRight(TrimLeft(line))

\* strings.HasPrefix(trimmed, ";")
HasPrefixSemi(line) == line # << >> /\ Head(line).t \in {"cmt", "ent", "next"}

IsAnsi(tok) == tok.t = "ansi"
NotAnsi(tok) == ~IsAnsi(tok)

\* ansiRegex.ReplaceAllString(s, "")
StripAnsi(line) == SelectSeq(line, NotAnsi)

\* strconv.Atoi on a string of decimal digits (error ignored by the caller)
RECURSIVE Atoi(_)
Atoi(ds) == IF ds = << >> THEN 0 ELSE 10 * Atoi(SubSeq(ds, 1, Len(ds) - 1)) + ds[Len(ds)]

IsEnt(tok) == tok.t = "ent"
IsNext(tok) == tok.t = "next"

\* regexp FindStringSubmatch: the leftmost match in the line, or none
EntriesMatch(line) == SelectSeq(line, IsEnt)
NextPageMatch(line) == SelectSeq(line, IsNext)

NewResponseParser(verbose) == [Verbose |-> verbose]

\* mutant: the counters start at -1 / 0
EmptyResult_Unknown ==
    [Data |-> << >>, CurrentCount |-> -1, TotalCount |-> 0, NextPageURL |-> NoURL,
     Echo |-> << >>]

EmptyResult ==
    [Data |-> << >>, CurrentCount |-> 0, TotalCount |-> 0, NextPageURL |-> NoURL,
     Echo |-> << >>]

\* mutant: the counters of the first matching line are kept
ParseLine_KeepFirst(p, r, line) ==
    LET trimmed == TrimSpace(line)
        cleaned == StripAnsi(trimmed)
        em == EntriesMatch(cleaned)
        nm == NextPageMatch(cleaned)
        fresh == r.CurrentCount = 0 /\ r.TotalCount = 0
    IN  IF trimmed = << >> THEN r
        ELSE IF HasPrefixSemi(trimmed)
        THEN [r EXCEPT
                !.CurrentCount = IF em # << >> /\ fresh THEN Atoi(em[1].a) ELSE @,
                !.TotalCount = IF em # << >> /\ fresh THEN Atoi(em[1].b) ELSE @,
                !.NextPageURL = IF nm # << >> THEN nm[1].u ELSE @,
                !.Echo = IF p.Verbose THEN Append(@, trimmed) ELSE @]
        ELSE [r EXCEPT !.Data = Append(@, cleaned)]

\* mutant: TotalCount read from the first capture group
ParseLine_SameGroup(p, r, line) ==
    LET trimmed == TrimSpace(line)
        cleaned == StripAnsi(trimmed)
        em == EntriesMatch(cleaned)
        nm == NextPageMatch(cleaned)
    IN  IF trimmed = << >> THEN r
        ELSE IF HasPrefixSemi(trimmed)
        THEN [r EXCEPT
                !.CurrentCount = IF em # << >> THEN Atoi(em[1].a) ELSE @,
                !.TotalCount = IF em # << >> THEN Atoi(em[1].a) ELSE @,
                !.NextPageURL = IF nm # << >> THEN nm[1].u ELSE @,
                !.Echo = IF p.Verbose THEN Append(@, trimmed) ELSE @]
        ELSE [r EXCEPT !.Data = Append(@, cleaned)]

\* mutant: a data line is appended with its surrounding whitespace
ParseLine_RawData(p, r, line) ==
    LET trimmed == TrimSpace(line)
        cleaned == StripAnsi(trimmed)
        em == EntriesMatch(cleaned)
        nm == NextPageMatch(cleaned)
    IN  IF trimmed = << >> THEN r
        ELSE IF HasPrefixSemi(trimmed)
        THEN [r EXCEPT
                !.CurrentCount = IF em # << >> THEN Atoi(em[1].a) ELSE @,
                !.TotalCount = IF em # << >> THEN Atoi(em[1].b) ELSE @,
                !.NextPageURL = IF nm # << >> THEN nm[1].u ELSE @,
                !.Echo = IF p.Verbose THEN Append(@, trimmed) ELSE @]
        ELSE [r EXCEPT !.Data = Append(@, StripAnsi(line))]

\* mutant: the colour escapes are stripped before the test for ';'
ParseLine_StripFirst(p, r, line) ==
    LET trimmed == TrimSpace(line)
        cleaned == StripAnsi(trimmed)
        em == EntriesMatch(cleaned)
        nm == NextPageMatch(cleaned)
    IN  IF trimmed = << >> THEN r
        ELSE IF HasPrefixSemi(cleaned)
        THEN [r EXCEPT
                !.CurrentCount = IF em # << >> THEN Atoi(em[1].a) ELSE @,
                !.TotalCount = IF em # << >> THEN Atoi(em[1].b) ELSE @,
                !.NextPageURL = IF nm # << >> THEN nm[1].u ELSE @,
                !.Echo = IF p.Verbose THEN Append(@, trimmed) ELSE @]
        ELSE [r EXCEPT !.Data = Append(@, cleaned)]

\* mutant: the echoed line is the one stripped of its colour escapes
ParseLine_EchoCleaned(p, r, line) ==
    LET trimmed == TrimSpace(line)
        cleaned == StripAnsi(trimmed)
        em == EntriesMatch(cleaned)
        nm == NextPageMatch(cleaned)
    IN  IF trimmed = << >> THEN r
        ELSE IF HasPrefixSemi(trimmed)
        THEN [r EXCEPT
                !.CurrentCount = IF em # << >> THEN Atoi(em[1].a) ELSE @,
                !.TotalCount = IF em # << >> THEN Atoi(em[1].b) ELSE @,
                !.NextPageURL = IF nm # << >> THEN nm[1].u ELSE @,
                !.Echo = IF p.Verbose THEN Append(@, cleaned) ELSE @]
        ELSE [r EXCEPT !.Data = Append(@, cleaned)]

\* mutant: a line that matched the Entries pattern is not tried for a link
ParseLine_Exclusive(p, r, line) ==
    LET trimmed == TrimSpace(line)
        cleaned == StripAnsi(trimmed)
        em == EntriesMatch(cleaned)
        nm == NextPageMatch(cleaned)
    IN  IF trimmed = << >> THEN r
        ELSE IF HasPrefixSemi(trimmed)
        THEN [r EXCEPT
                !.CurrentCount = IF em # << >> THEN Atoi(em[1].a) ELSE @,
                !.TotalCount = IF em # << >> THEN Atoi(em[1].b) ELSE @,
                !.NextPageURL = IF nm # << >> /\ em = << >> THEN nm[1].u ELSE @,
                !.Echo = IF p.Verbose THEN Append(@, trimmed) ELSE @]
        ELSE [r EXCEPT !.Data = Append(@, cleaned)]

\* one iteration of the loop over the lines in Parse
ParseLine(p, r, line) ==
    LET trimmed == TrimSpace(line)
        cleaned == StripAnsi(trimmed)
        em == EntriesMatch(cleaned)
        nm == NextPageMatch(cleaned)
    IN  IF trimmed = << >> THEN r
        ELSE IF HasPrefixSemi(trimmed)
        THEN [r EXCEPT
                !.CurrentCount = IF em # << >> THEN Atoi(em[1].a) ELSE @,
                !.TotalCount = IF em # << >> THEN Atoi(em[1].b) ELSE @,
                !.NextPageURL = IF nm # << >> THEN nm[1].u ELSE @,
                !.Echo = IF p.Verbose THEN Append(@, trimmed) ELSE @]
        ELSE [r EXCEPT !.Data = Append(@, cleaned)]

RECURSIVE ParseLines(_, _, _)
ParseLines(p, r, lines) ==
    IF lines = << >> THEN r
    ELSE ParseLines(p, ParseLine(p, r, Head(lines)), Tail(lines))

\* the ParseResult together with the lines written to stderr
ParseRun(p, body) == ParseLines(p, EmptyResult, body)

Parse(p, body) ==
    LET r == ParseRun(p, body)
    IN  [Data |-> r.Data, CurrentCount |-> r.CurrentCount,
         TotalCount |-> r.TotalCount, NextPageURL |-> r.NextPageURL]

ParseEcho(p, body) == ParseRun(p, body).Echo

\* mutant: the counters alone decide, the next-page link is not looked at
HasMore_CountsOnly(r) ==
    IF r.CurrentCount = 0 /\ r.TotalCount = 0 THEN FALSE
    ELSE r.CurrentCount < r.TotalCount

HasMore(r) ==
    IF r.NextPageURL # NoURL THEN TRUE
    ELSE IF r.CurrentCount = 0 /\ r.TotalCount = 0 THEN FALSE
    ELSE r.CurrentCount < r.TotalCount

\* --------------------------------------------------- the upstream service
BaseURL == "https://ip.thc.org"
OtherHost == "https://elsewhere.example"

MkURL(base, path, l) == <<base, path, l>>

D(s) == <<Txt(s)>>
TenSubs == <<D("sub1"), D("sub2"), D("sub3"), D("sub4"), D("sub5"),
             D("sub6"), D("sub7"), D("sub8"), D("sub9"), D("sub10")>>

Sites ==
    {"single", "count", "partial", "chain", "cycle", "plain", "fulllink", "offsite",
     "colour", "nodata"}
ShortSites == Sites \ {"cycle"}

\* the body the service at `site` returns with status 200 for a GET of url
Respond(s, url) ==
    LET path == url[2]
        l == url[3]
        P2 == MkURL(BaseURL, "/p2", 0)
        P3 == MkURL(BaseURL, "/p3", 0)
    IN  CASE s = "single" ->
               <<<<Ent(<<5>>, <<5>>)>>, D("sub1"), D("sub2"), D("sub3"), D("sub4"), D("sub5")>>
          [] s = "count" ->
               IF l >= 10
               THEN <<<<Ent(<<1, 0>>, <<1, 0>>)>>>> \o TenSubs
               ELSE <<<<Cmt("Subdomains For")>>, <<Ent(<<2>>, <<1, 0>>)>>, D("sub1"), D("sub2")>>
          [] s = "partial" ->
               IF l = 10
               THEN <<<<Ent(<<1, 0>>, <<1, 0>>)>>>> \o TenSubs
               ELSE <<<<Ent(<<2>>, <<1, 0>>)>>, D("sub1"), D("sub2")>>
          [] s = "chain" ->
               IF path = "/p2"
               THEN <<<<Cmt("page two")>>, <<Ent(<<2>>, <<6>>)>>, <<NextTok(P3)>>, D("a3"), D("a4")>>
               ELSE IF path = "/p3"
               THEN <<<<Ent(<<2>>, <<6>>)>>, D("a5"), << >>, D("a6")>>
               ELSE <<<<Cmt("Subdomains For")>>, <<Ent(<<2>>, <<6>>)>>,
                      <<NextTok(P2), Sp>>, D("a1"), D("a2")>>
          [] s = "cycle" ->
               IF path = "/p2"
               THEN <<<<Ent(<<1>>, <<3>>)>>, <<NextTok(P3)>>, D("c2")>>
               ELSE IF path = "/p3"
               THEN <<<<Ent(<<1>>, <<3>>)>>, <<NextTok(P2)>>, D("c3")>>
               ELSE <<<<Ent(<<1>>, <<3>>)>>, <<NextTok(P2)>>, D("c1")>>
          [] s = "plain" ->
               <<D("sub1"), << >>, <<Sp, Txt("sub2"), Sp>>>>
          [] s = "fulllink" ->
               IF path = "/p3"
               THEN <<D("f3")>>
               ELSE <<<<Ent(<<2>>, <<2>>), Sp, NextTok(P3)>>, D("f1"), D("f2")>>
          [] s = "offsite" ->
               IF url[1] = OtherHost
               THEN <<<<Cmt("elsewhere")>>, D("o2")>>
               ELSE <<<<NextTok(MkURL(OtherHost, "/p2", 0))>>, D("o1")>>
          [] s = "nodata" ->
               <<<<Cmt("No results found")>>>>
          [] s = "colour" ->
               IF path = "/p2"
               THEN <<<<Ansi, Cmt("tinted")>>, <<Ansi>>, D("k2")>>
               ELSE <<<<Sp, Ansi, Sp, Txt("k0")>>, <<Sp, Cmt("Rate Limit"), Ansi, Sp>>,
                      <<Ansi, Ent(<<1>>, <<2>>), Ansi>>, <<Cmt("link"), Sp, NextTok(P2)>>,
                      <<Txt("k1"), Ansi>>>>

\* ------------------------------------------------------------------ state
VARIABLES
    variant,      \* "callback": client.go, "string": the client of examples/usage.sh
    site,         \* the behaviour of the upstream service in this run
    mode,         \* "dns" | "subs" | "cname": which Query* operation the caller uses
    c,            \* the APIClient: BaseURL, Limit, RateLimit, Verbose, lastRequest
    now,          \* the clock; 0 is the zero time.Time, the run starts at 1
    pc,           \* "idle" | "paging" (inside the pagination loop) | "returned"
    q,            \* locals of the running query
    reqs,         \* URLs requested by the current query, in order
    delivered,    \* invocations of the page callback in the current query
    stderr,       \* lines written to stderr by the current query
    ret,          \* what the query returned: [body, err]
    issued,       \* times at which the client's last two requests went out
    lastOut,      \* outcome of the client's latest request
    queries,      \* number of queries started
    parse,        \* a direct call of Parse: [body, verbose, done, result, echo]
    main,         \* locals of main: its position, the last Scan, counters, log, output
    trace,        \* the last two requests of a run of main: [line, start, end]
    check,        \* a direct call of ValidateDomain: [on, input, done, err]
    logger,       \* an ErrorLogger and its file: [file, content, pre, calls, ...]
    lastRes,      \* what the client's latest makeRequest returned: [body, err]
    lastCb        \* what the latest page callback returned: "none" | "ok" | "error"

vars == <<variant, site, mode, c, now, pc, q, reqs, delivered, stderr, ret,
          issued, lastOut, queries, parse, main, trace, check, logger, lastRes,
          lastCb>>

NoErr == [kind |-> "nil", code |-> 0]
Err(kind, code) == [kind |-> kind, code |-> code]

NoBody == << >>
NoResult == [Data |-> << >>, CurrentCount |-> 0, TotalCount |-> 0, NextPageURL |-> NoURL]
NoQuery ==
    [endpoint |-> "", body |-> NoBody, result |-> NoResult, nextURL |-> NoURL,
     pageCount |-> 0, allData |-> << >>, parser |-> NewResponseParser(FALSE)]

\* NewAPIClient
NewAPIClient(baseURL, limit, rateLimit, verbose) ==
    [BaseURL |-> baseURL, Limit |-> limit, RateLimit |-> rateLimit,
     Verbose |-> verbose, lastRequest |-> 0]

\* mutant: QueryCNAME built on the subdomain path
Endpoint_Swapped(m, input) ==
    CASE m = "dns" -> "/" \o input
      [] m = "subs" -> "/sb/" \o input
      [] m = "cname" -> "/sb/" \o input

\* QueryDNS / QuerySubdomains / QueryCNAME: the endpoint of a query
Endpoint(m, input) ==
    CASE m = "dns" -> "/" \o input
      [] m = "subs" -> "/sb/" \o input
      [] m = "cname" -> "/cn/" \o input

\* ---------------------------------------------------------- makeRequest
\* what the network and the service do to one GET
Outcomes ==
    {[net |-> "fail", status |-> 0, read |-> "ok"]}
      \cup {[net |-> "ok", status |-> s, read |-> "ok"] : s \in {StatusOK, 204, 500}}
      \cup {[net |-> "ok", status |-> StatusOK, read |-> "fail"]}

\* time the request may take; the environment's free time is bounded by MaxClock
Latencies == IF now < MaxClock THEN {0, 1} ELSE {0}

\* time.Sleep(delay - elapsed) when the last request is less than delay ago
SleepTime(cl, t) ==
    IF cl.RateLimit > 0 /\ cl.lastRequest # 0 /\ t - cl.lastRequest < cl.RateLimit
    THEN cl.RateLimit - (t - cl.lastRequest)
    ELSE 0

\* the time at which HTTPClient.Get(url) is called
IssueTime(cl, t) == t + SleepTime(cl, t)

\* mutant: c.lastRequest set before the error of Get is looked at
LastRequestAfter_Always(cl, t, out, lat) == IssueTime(cl, t) + lat

\* c.lastRequest after the request: time.Now() once Get has returned a response
LastRequestAfter(cl, t, out, lat) ==
    IF out.net = "fail" THEN cl.lastRequest ELSE IssueTime(cl, t) + lat

\* mutant: makeRequest without the test of resp.StatusCode
RequestResult_IgnoreStatus(s, url, out) ==
    IF out.net = "fail" THEN [body |-> NoBody, err |-> Err("transport", 0)]
    ELSE IF out.read = "fail" THEN [body |-> NoBody, err |-> Err("read", 0)]
    ELSE [body |-> Respond(s, url), err |-> NoErr]

\* mutant: makeRequest taking every 2xx status for a success
RequestResult_Any2xx(s, url, out) ==
    IF out.net = "fail" THEN [body |-> NoBody, err |-> Err("transport", 0)]
    ELSE IF out.status < 200 \/ out.status >= 300
    THEN [body |-> NoBody, err |-> Err("status", out.status)]
    ELSE IF out.read = "fail" THEN [body |-> NoBody, err |-> Err("read", 0)]
    ELSE [body |-> Respond(s, url), err |-> NoErr]

\* the (body, err) makeRequest returns
RequestResult(s, url, out) ==
    IF out.net = "fail" THEN [body |-> NoBody, err |-> Err("transport", 0)]
    ELSE IF out.status # StatusOK THEN [body |-> NoBody, err |-> Err("status", out.status)]
    ELSE IF out.read = "fail" THEN [body |-> NoBody, err |-> Err("read", 0)]
    ELSE [body |-> Respond(s, url), err |-> NoErr]

\* mutant: makeRequest returns without waiting for the response
MakeRequest_NoWait(url, out, lat) ==
    /\ c' = [c EXCEPT !.lastRequest = LastRequestAfter(c, now, out, lat)]
    /\ now' = IssueTime(c, now)
    /\ issued' = <<issued[2], IssueTime(c, now)>>
    /\ lastOut' = out
    /\ lastRes' = RequestResult(site, url, out)
    /\ reqs' = Append(IF pc = "paging" THEN reqs ELSE << >>, url)

\* the effect of makeRequest(url) on the client, the clock and the request log
MakeRequest(url, out, lat) ==
    /\ c' = [c EXCEPT !.lastRequest = LastRequestAfter(c, now, out, lat)]
    /\ now' = IssueTime(c, now) + lat
    /\ issued' = <<issued[2], IssueTime(c, now)>>
    /\ lastOut' = out
    /\ lastRes' = RequestResult(site, url, out)
    /\ reqs' = Append(IF pc = "paging" THEN reqs ELSE << >>, url)

\* ------------------------------------------------- the two query functions
CallbackErr == Err("callback", 0)

AutoPaginationMsg == <<Txt("Auto-pagination: fetching all results...")>>
FetchingPageMsg == <<Txt("Fetching page")>>
PaginationFailedMsg == <<Txt("Pagination failed")>>
MaxPagesMsg == <<Txt("Reached maximum page limit")>>

If(b, line) == IF b THEN <<line>> ELSE << >>

\* the first request URL: base, endpoint and ?l=<Limit> when Limit > 0
FirstURL(cl, endpoint) ==
    IF cl.Limit > 0 THEN MkURL(cl.BaseURL, endpoint, cl.Limit)
    ELSE MkURL(cl.BaseURL, endpoint, 0)

Call(results, page, total) ==
    [results |-> results, currentPage |-> page, totalResults |-> total]

Returned(qq, dl, se, body, err) ==
    [pc |-> "returned", q |-> qq, delivered |-> dl, stderr |-> se,
     ret |-> [body |-> body, err |-> err]]

Paging(qq, dl, se) ==
    [pc |-> "paging", q |-> qq, delivered |-> dl, stderr |-> se,
     ret |-> [body |-> NoBody, err |-> NoErr]]

\* mutant: queryWithCallback without the return for Limit > 0
CallbackFirst_NoLimitStop(cl, endpoint, rr, cbOK) ==
    LET parser == NewResponseParser(cl.Verbose)
        result == Parse(parser, rr.body)
        se == ParseEcho(parser, rr.body)
        dl == <<Call(result.Data, 1, result.TotalCount)>>
        q0 == [NoQuery EXCEPT !.endpoint = endpoint]
        q1 == [q0 EXCEPT !.body = rr.body, !.result = result, !.parser = parser]
        q2 == [q1 EXCEPT !.nextURL = result.NextPageURL, !.pageCount = 1]
        se2 == se \o If(cl.Verbose, AutoPaginationMsg)
    IN  IF rr.err # NoErr THEN Returned(q0, << >>, << >>, NoBody, rr.err)
        ELSE IF ~cbOK THEN Returned(q1, dl, se, NoBody, CallbackErr)
        ELSE IF ~HasMore(result) THEN Returned(q1, dl, se, NoBody, NoErr)
        ELSE IF q2.nextURL # NoURL THEN Paging(q2, dl, se2)
        ELSE Returned(q2, dl, se2, NoBody, NoErr)

\* client.go queryWithCallback, from its entry to the first test of the loop
\* condition; rr is what makeRequest returned, cbOK whether the callback succeeds
CallbackFirst(cl, endpoint, rr, cbOK) ==
    LET parser == NewResponseParser(cl.Verbose)
        result == Parse(parser, rr.body)
        se == ParseEcho(parser, rr.body)
        dl == <<Call(result.Data, 1, result.TotalCount)>>
        q0 == [NoQuery EXCEPT !.endpoint = endpoint]
        q1 == [q0 EXCEPT !.body = rr.body, !.result = result, !.parser = parser]
        q2 == [q1 EXCEPT !.nextURL = result.NextPageURL, !.pageCount = 1]
        se2 == se \o If(cl.Verbose, AutoPaginationMsg)
    IN  IF rr.err # NoErr THEN Returned(q0, << >>, << >>, NoBody, rr.err)
        ELSE IF ~cbOK THEN Returned(q1, dl, se, NoBody, CallbackErr)
        ELSE IF cl.Limit > 0 THEN Returned(q1, dl, se, NoBody, NoErr)
        ELSE IF ~HasMore(result) THEN Returned(q1, dl, se, NoBody, NoErr)
        ELSE IF q2.nextURL # NoURL THEN Paging(q2, dl, se2)
        ELSE Returned(q2, dl, se2, NoBody, NoErr)

\* mutant: the page cap tested with > instead of >=
CallbackPage_OffByOne(cl, qq, dl, se, rr, cbOK) ==
    LET pageCount == qq.pageCount + 1
        se1 == se \o If(cl.Verbose, FetchingPageMsg)
        q1 == [qq EXCEPT !.pageCount = pageCount]
        pageResult == Parse(qq.parser, rr.body)
        se2 == se1 \o ParseEcho(qq.parser, rr.body)
        dl2 == Append(dl, Call(pageResult.Data, pageCount, qq.result.TotalCount))
        q2 == [q1 EXCEPT !.nextURL = pageResult.NextPageURL]
    IN  IF rr.err # NoErr
        THEN Returned(q1, dl, se1 \o If(cl.Verbose, PaginationFailedMsg), NoBody, rr.err)
        ELSE IF ~cbOK THEN Returned(q1, dl2, se2, NoBody, CallbackErr)
        ELSE IF pageCount > MaxPages
        THEN Returned(q2, dl2, se2 \o If(cl.Verbose, MaxPagesMsg), NoBody, NoErr)
        ELSE IF q2.nextURL # NoURL THEN Paging(q2, dl2, se2)
        ELSE Returned(q2, dl2, se2, NoBody, NoErr)

\* mutant: a failed page request is issued again
CallbackPage_Retry(cl, qq, dl, se, rr, cbOK) ==
    LET pageCount == qq.pageCount + 1
        se1 == se \o If(cl.Verbose, FetchingPageMsg)
        q1 == [qq EXCEPT !.pageCount = pageCount]
        pageResult == Parse(qq.parser, rr.body)
        se2 == se1 \o ParseEcho(qq.parser, rr.body)
        dl2 == Append(dl, Call(pageResult.Data, pageCount, qq.result.TotalCount))
        q2 == [q1 EXCEPT !.nextURL = pageResult.NextPageURL]
    IN  IF rr.err # NoErr /\ pageCount < MaxPages THEN Paging(q1, dl, se1)
        ELSE IF rr.err # NoErr
        THEN Returned(q1, dl, se1 \o If(cl.Verbose, PaginationFailedMsg), NoBody, rr.err)
        ELSE IF ~cbOK THEN Returned(q1, dl2, se2, NoBody, CallbackErr)
        ELSE IF pageCount >= MaxPages
        THEN Returned(q2, dl2, se2 \o If(cl.Verbose, MaxPagesMsg), NoBody, NoErr)
        ELSE IF q2.nextURL # NoURL THEN Paging(q2, dl2, se2)
        ELSE Returned(q2, dl2, se2, NoBody, NoErr)

\* mutant: the callback given the page number counted from 0
CallbackPage_PageFromZero(cl, qq, dl, se, rr, cbOK) ==
    LET pageCount == qq.pageCount + 1
        se1 == se \o If(cl.Verbose, FetchingPageMsg)
        q1 == [qq EXCEPT !.pageCount = pageCount]
        pageResult == Parse(qq.parser, rr.body)
        se2 == se1 \o ParseEcho(qq.parser, rr.body)
        dl2 == Append(dl, Call(pageResult.Data, pageCount - 1, qq.result.TotalCount))
        q2 == [q1 EXCEPT !.nextURL = pageResult.NextPageURL]
    IN  IF rr.err # NoErr
        THEN Returned(q1, dl, se1 \o If(cl.Verbose, PaginationFailedMsg), NoBody, rr.err)
        ELSE IF ~cbOK THEN Returned(q1, dl2, se2, NoBody, CallbackErr)
        ELSE IF pageCount >= MaxPages
        THEN Returned(q2, dl2, se2 \o If(cl.Verbose, MaxPagesMsg), NoBody, NoErr)
        ELSE IF q2.nextURL # NoURL THEN Paging(q2, dl2, se2)
        ELSE Returned(q2, dl2, se2, NoBody, NoErr)

\* mutant: a callback that fails is ignored
CallbackPage_IgnoreCallback(cl, qq, dl, se, rr, cbOK) ==
    LET pageCount == qq.pageCount + 1
        se1 == se \o If(cl.Verbose, FetchingPageMsg)
        q1 == [qq EXCEPT !.pageCount = pageCount]
        pageResult == Parse(qq.parser, rr.body)
        se2 == se1 \o ParseEcho(qq.parser, rr.body)
        dl2 == Append(dl, Call(pageResult.Data, pageCount, qq.result.TotalCount))
        q2 == [q1 EXCEPT !.nextURL = pageResult.NextPageURL]
    IN  IF rr.err # NoErr
        THEN Returned(q1, dl, se1 \o If(cl.Verbose, PaginationFailedMsg), NoBody, rr.err)
        ELSE IF pageCount >= MaxPages
        THEN Returned(q2, dl2, se2 \o If(cl.Verbose, MaxPagesMsg), NoBody, NoErr)
        ELSE IF q2.nextURL # NoURL THEN Paging(q2, dl2, se2)
        ELSE Returned(q2, dl2, se2, NoBody, NoErr)

\* mutant: the link of an earlier page kept when a page has none
CallbackPage_CarryLink(cl, qq, dl, se, rr, cbOK) ==
    LET pageCount == qq.pageCount + 1
        se1 == se \o If(cl.Verbose, FetchingPageMsg)
        q1 == [qq EXCEPT !.pageCount = pageCount]
        pageResult == Parse(qq.parser, rr.body)
        se2 == se1 \o ParseEcho(qq.parser, rr.body)
        dl2 == Append(dl, Call(pageResult.Data, pageCount, qq.result.TotalCount))
        q2 == [q1 EXCEPT !.nextURL = IF pageResult.NextPageURL # NoURL
                                      THEN pageResult.NextPageURL ELSE @]
    IN  IF rr.err # NoErr
        THEN Returned(q1, dl, se1 \o If(cl.Verbose, PaginationFailedMsg), NoBody, rr.err)
        ELSE IF ~cbOK THEN Returned(q1, dl2, se2, NoBody, CallbackErr)
        ELSE IF pageCount >= MaxPages
        THEN Returned(q2, dl2, se2 \o If(cl.Verbose, MaxPagesMsg), NoBody, NoErr)
        ELSE IF q2.nextURL # NoURL THEN Paging(q2, dl2, se2)
        ELSE Returned(q2, dl2, se2, NoBody, NoErr)

\* mutant: a page request that fails is waited for without a timeout
CallbackPage_Blocked(cl, qq, dl, se, rr, cbOK) ==
    LET pageCount == qq.pageCount + 1
        se1 == se \o If(cl.Verbose, FetchingPageMsg)
        q1 == [qq EXCEPT !.pageCount = pageCount]
        pageResult == Parse(qq.parser, rr.body)
        se2 == se1 \o ParseEcho(qq.parser, rr.body)
        dl2 == Append(dl, Call(pageResult.Data, pageCount, qq.result.TotalCount))
        q2 == [q1 EXCEPT !.nextURL = pageResult.NextPageURL]
    IN  IF rr.err # NoErr
        THEN [Paging(q1, dl, se1) EXCEPT !.pc = "blocked"]
        ELSE IF ~cbOK THEN Returned(q1, dl2, se2, NoBody, CallbackErr)
        ELSE IF pageCount >= MaxPages
        THEN Returned(q2, dl2, se2 \o If(cl.Verbose, MaxPagesMsg), NoBody, NoErr)
        ELSE IF q2.nextURL # NoURL THEN Paging(q2, dl2, se2)
        ELSE Returned(q2, dl2, se2, NoBody, NoErr)

\* client.go queryWithCallback: one iteration of the pagination loop and the
\* test of the loop condition that follows it
CallbackPage(cl, qq, dl, se, rr, cbOK) ==
    LET pageCount == qq.pageCount + 1
        se1 == se \o If(cl.Verbose, FetchingPageMsg)
        q1 == [qq EXCEPT !.pageCount = pageCount]
        pageResult == Parse(qq.parser, rr.body)
        se2 == se1 \o ParseEcho(qq.parser, rr.body)
        dl2 == Append(dl, Call(pageResult.Data, pageCount, qq.result.TotalCount))
        q2 == [q1 EXCEPT !.nextURL = pageResult.NextPageURL]
    IN  IF rr.err # NoErr
        THEN Returned(q1, dl, se1 \o If(cl.Verbose, PaginationFailedMsg), NoBody, rr.err)
        ELSE IF ~cbOK THEN Returned(q1, dl2, se2, NoBody, CallbackErr)
        ELSE IF pageCount >= MaxPages
        THEN Returned(q2, dl2, se2 \o If(cl.Verbose, MaxPagesMsg), NoBody, NoErr)
        ELSE IF q2.nextURL # NoURL THEN Paging(q2, dl2, se2)
        ELSE Returned(q2, dl2, se2, NoBody, NoErr)

IsMetaLine(line) == HasPrefixSemi(TrimSpace(line))

\* mutant: the comment lines of the first body are written in trimmed form
Reconstruct_Trimmed(body, allData) ==
    LET meta == SelectSeq(body, IsMetaLine)
    IN  [i \in DOMAIN meta |-> TrimSpace(meta[i])] \o allData \o << << >> >>

\* the combined response: the comment lines of the first body, then all
\* collected data, each followed by "\n" (so the text ends with an empty line)
Reconstruct(body, allData) == SelectSeq(body, IsMetaLine) \o allData \o << << >> >>

\* mutant: queryWithPagination without the early return for a complete page
StringFirst_AlwaysRebuild(cl, endpoint, rr) ==
    LET parser == NewResponseParser(FALSE)
        result == Parse(parser, rr.body)
        q0 == [NoQuery EXCEPT !.endpoint = endpoint]
        q1 == [q0 EXCEPT !.body = rr.body, !.result = result, !.parser = parser]
        q2 == [q1 EXCEPT !.allData = result.Data, !.nextURL = result.NextPageURL,
                         !.pageCount = 1]
        se2 == If(cl.Verbose, AutoPaginationMsg)
    IN  IF rr.err # NoErr THEN Returned(q0, << >>, << >>, NoBody, rr.err)
        ELSE IF cl.Limit > 0 THEN Returned(q1, << >>, << >>, rr.body, NoErr)
        ELSE IF q2.nextURL # NoURL THEN Paging(q2, << >>, se2)
        ELSE Returned(q2, << >>, se2, Reconstruct(q2.body, q2.allData), NoErr)

\* examples/usage.sh queryWithPagination, from its entry to the first test of
\* the loop condition
StringFirst(cl, endpoint, rr) ==
    LET parser == NewResponseParser(FALSE)
        result == Parse(parser, rr.body)
        q0 == [NoQuery EXCEPT !.endpoint = endpoint]
        q1 == [q0 EXCEPT !.body = rr.body, !.result = result, !.parser = parser]
        q2 == [q1 EXCEPT !.allData = result.Data, !.nextURL = result.NextPageURL,
                         !.pageCount = 1]
        se2 == If(cl.Verbose, AutoPaginationMsg)
    IN  IF rr.err # NoErr THEN Returned(q0, << >>, << >>, NoBody, rr.err)
        ELSE IF cl.Limit > 0 THEN Returned(q1, << >>, << >>, rr.body, NoErr)
        ELSE IF ~HasMore(result) THEN Returned(q1, << >>, << >>, rr.body, NoErr)
        ELSE IF q2.nextURL # NoURL THEN Paging(q2, << >>, se2)
        ELSE Returned(q2, << >>, se2, Reconstruct(q2.body, q2.allData), NoErr)

\* mutant: a failed page request returned as the query's error
StringPage_FailHard(cl, qq, se, rr) ==
    LET pageCount == qq.pageCount + 1
        se1 == se \o If(cl.Verbose, FetchingPageMsg)
        q1 == [qq EXCEPT !.pageCount = pageCount]
        pageResult == Parse(qq.parser, rr.body)
        q2 == [q1 EXCEPT !.allData = @ \o pageResult.Data,
                         !.nextURL = pageResult.NextPageURL]
    IN  IF rr.err # NoErr
        THEN Returned(q1, << >>, se1 \o If(cl.Verbose, PaginationFailedMsg), NoBody, rr.err)
        ELSE IF pageCount >= MaxPages
        THEN Returned(q2, << >>, se1 \o If(cl.Verbose, MaxPagesMsg),
                      Reconstruct(q2.body, q2.allData), NoErr)
        ELSE IF q2.nextURL # NoURL THEN Paging(q2, << >>, se1)
        ELSE Returned(q2, << >>, se1, Reconstruct(q2.body, q2.allData), NoErr)

\* mutant: the data of a page is put in front of the collected data
StringPage_Prepend(cl, qq, se, rr) ==
    LET pageCount == qq.pageCount + 1
        se1 == se \o If(cl.Verbose, FetchingPageMsg)
        q1 == [qq EXCEPT !.pageCount = pageCount]
        pageResult == Parse(qq.parser, rr.body)
        q2 == [q1 EXCEPT !.allData = pageResult.Data \o @,
                         !.nextURL = pageResult.NextPageURL]
    IN  IF rr.err # NoErr
        THEN Returned(q1, << >>, se1 \o If(cl.Verbose, PaginationFailedMsg),
                      Reconstruct(q1.body, q1.allData), NoErr)
        ELSE IF pageCount >= MaxPages
        THEN Returned(q2, << >>, se1 \o If(cl.Verbose, MaxPagesMsg),
                      Reconstruct(q2.body, q2.allData), NoErr)
        ELSE IF q2.nextURL # NoURL THEN Paging(q2, << >>, se1)
        ELSE Returned(q2, << >>, se1, Reconstruct(q2.body, q2.allData), NoErr)

\* examples/usage.sh queryWithPagination: one iteration of the pagination loop,
\* the test of the loop condition and, when the loop ends, the reconstruction
StringPage(cl, qq, se, rr) ==
    LET pageCount == qq.pageCount + 1
        se1 == se \o If(cl.Verbose, FetchingPageMsg)
        q1 == [qq EXCEPT !.pageCount = pageCount]
        pageResult == Parse(qq.parser, rr.body)
        q2 == [q1 EXCEPT !.allData = @ \o pageResult.Data,
                         !.nextURL = pageResult.NextPageURL]
    IN  IF rr.err # NoErr
        THEN Returned(q1, << >>, se1 \o If(cl.Verbose, PaginationFailedMsg),
                      Reconstruct(q1.body, q1.allData), NoErr)
        ELSE IF pageCount >= MaxPages
        THEN Returned(q2, << >>, se1 \o If(cl.Verbose, MaxPagesMsg),
                      Reconstruct(q2.body, q2.allData), NoErr)
        ELSE IF q2.nextURL # NoURL THEN Paging(q2, << >>, se1)
        ELSE Returned(q2, << >>, se1, Reconstruct(q2.body, q2.allData), NoErr)

\* a call of Parse that has not been made
NoParse ==
    [body |-> NoBody, verbose |-> FALSE, done |-> FALSE, result |-> NoResult,
     echo |-> << >>]

\* main outside its input loop: the client used as a library
NoLog == [mode |-> "", input |-> << >>, err |-> NoErr]
NoFlags == [dns |-> FALSE, subs |-> FALSE, cname |-> FALSE, v |-> FALSE, l |-> 0, r |-> 0]
NoMain ==
    [pc |-> "off", flags |-> NoFlags, lineNo |-> 0, input |-> << >>, failureCount |-> 0,
     processed |-> 0, good |-> 0, logged |-> 0, lastLog |-> NoLog,
     stdout |-> << >>, scan |-> "none", exit |-> -1]

NoReq == [line |-> 0, start |-> 0, end |-> 0]
NoTrace == <<NoReq, NoReq>>

NoCheck == [on |-> FALSE, input |-> << >>, done |-> FALSE, err |-> NoErr]

NoArgs == [mode |-> "", input |-> "", message |-> ""]
NoLogger ==
    [file |-> "none", content |-> << >>, pre |-> << >>, calls |-> 0, written |-> 0,
     args |-> NoArgs, err |-> NoErr]

\* ---------------------------------------------------------------- actions
\* what the callback of this step returned: it is called when the request has
\* succeeded, and cbOK is whether it returns nil
Callback(rr, cbOK) == IF rr.err # NoErr THEN "none" ELSE IF cbOK THEN "ok" ELSE "error"

Inputs == {"example.com"}

Become(n) ==
    /\ pc' = n.pc
    /\ q' = n.q
    /\ delivered' = n.delivered
    /\ stderr' = n.stderr
    /\ ret' = n.ret

\* Query*(input, callback) of client.go up to the first loop test
CallbackStart(input, out, lat, cbOK) ==
    /\ variant = "callback"
    /\ pc \in {"idle", "returned"}
    /\ queries < MaxQueries
    /\ LET endpoint == Endpoint(mode, input)
           url == FirstURL(c, endpoint)
       IN  /\ MakeRequest(url, out, lat)
           /\ Become(CallbackFirst(c, endpoint, RequestResult(site, url, out), cbOK))
           /\ lastCb' = Callback(RequestResult(site, url, out), cbOK)
    /\ queries' = queries + 1
    /\ UNCHANGED <<variant, site, mode, parse, main, trace, check, logger>>

\* one pass through the loop of queryWithCallback
CallbackNext(out, lat, cbOK) ==
    /\ variant = "callback"
    /\ pc = "paging"
    /\ MakeRequest(q.nextURL, out, lat)
    /\ Become(CallbackPage(c, q, delivered, stderr, RequestResult(site, q.nextURL, out), cbOK))
    /\ lastCb' = Callback(RequestResult(site, q.nextURL, out), cbOK)
    /\ UNCHANGED <<variant, site, mode, queries, parse, main, trace, check,
                   logger>>

\* Query*(input) of the string-returning client up to the first loop test
StringStart(input, out, lat) ==
    /\ variant = "string"
    /\ pc \in {"idle", "returned"}
    /\ queries < MaxQueries
    /\ LET endpoint == Endpoint(mode, input)
           url == FirstURL(c, endpoint)
       IN  /\ MakeRequest(url, out, lat)
           /\ Become(StringFirst(c, endpoint, RequestResult(site, url, out)))
    /\ queries' = queries + 1
    /\ UNCHANGED <<variant, site, mode, parse, main, trace, check, logger,
                   lastCb>>

\* one pass through the loop of queryWithPagination
StringNext(out, lat) ==
    /\ variant = "string"
    /\ pc = "paging"
    /\ MakeRequest(q.nextURL, out, lat)
    /\ Become(StringPage(c, q, stderr, RequestResult(site, q.nextURL, out)))
    /\ UNCHANGED <<variant, site, mode, queries, parse, main, trace, check,
                   logger, lastCb>>

\* time passes between two queries
Tick ==
    /\ pc \in {"idle", "returned"}
    /\ now < MaxClock
    /\ now' = now + 1
    /\ UNCHANGED <<variant, site, mode, c, pc, q, reqs, delivered, stderr, ret,
                   issued, lastOut, lastRes, queries, parse, main, trace, check,
                   logger, lastCb>>

Limits == {0, 2, 200}
Modes == {"dns", "subs", "cname"}
NoOutcome == [net |-> "none", status |-> 0, read |-> "ok"]

InitWith(sites, modes, rates) ==
    /\ variant \in {"callback", "string"}
    /\ site \in sites
    /\ mode \in modes
    /\ \E limit \in Limits, rate \in rates, verbose \in BOOLEAN :
          c = NewAPIClient(BaseURL, limit, rate, verbose)
    /\ now = 1
    /\ pc = "idle"
    /\ q = NoQuery
    /\ reqs = << >>
    /\ delivered = << >>
    /\ stderr = << >>
    /\ ret = [body |-> NoBody, err |-> NoErr]
    /\ issued = <<0, 0>>
    /\ lastOut = NoOutcome
    /\ lastRes = NoResult
    /\ lastCb = "none"
    /\ queries = 0
    /\ parse = NoParse
    /\ main = NoMain
    /\ trace = NoTrace
    /\ check = NoCheck
    /\ logger = NoLogger

Init == InitWith(Sites, {"subs"}, {0})

Next ==
    \/ \E input \in Inputs, out \in Outcomes, lat \in Latencies, cbOK \in BOOLEAN :
          CallbackStart(input, out, lat, cbOK)
    \/ \E out \in Outcomes, lat \in Latencies, cbOK \in BOOLEAN :
          CallbackNext(out, lat, cbOK)
    \/ \E input \in Inputs, out \in Outcomes, lat \in Latencies :
          StringStart(input, out, lat)
    \/ \E out \in Outcomes, lat \in Latencies : StringNext(out, lat)
    \/ Tick

Spec == Init /\ [][Next]_vars

\* the same program with a rate limit, every mode and the short-lived services
InitRate == InitWith(ShortSites, Modes, {0, 2})

SpecRate == InitRate /\ [][Next]_vars

\* the pass through the loop that a fetcher in its loop makes next
LoopStep ==
    \/ \E out \in Outcomes, lat \in Latencies, cbOK \in BOOLEAN :
          CallbackNext(out, lat, cbOK)
    \/ \E out \in Outcomes, lat \in Latencies : StringNext(out, lat)

\* the same program when every request it issues completes or fails: the HTTP
\* client has a timeout of 30 seconds and the loop is sequential code, so a
\* fetcher that is in its loop makes its next pass
SpecLive == Init /\ [][Next]_vars /\ WF_vars(LoopStep)

\* ------------------------------------------------- validator.go and main
\* An input line is a sequence of characters, each a one-character string:
\* "a" a letter, "1" a digit, "." , " " and "#".

\* SanitizeInput: strings.TrimSpace
RECURSIVE TrimLeftChars(_)
TrimLeftChars(text) ==
    IF text # << >> /\ Head(text) = " " THEN TrimLeftChars(Tail(text)) ELSE text

RECURSIVE TrimRightChars(_)
TrimRightChars(text) ==
    IF text # << >> /\ text[Len(text)] = " "
    THEN TrimRightChars(SubSeq(text, 1, Len(text) - 1))
    ELSE text

SanitizeInput(text) == TrimRightChars(TrimLeftChars(text))

\* strings.Contains for a single character and for ".."
ContainsChar(input, ch) == \E i \in DOMAIN input : input[i] = ch
ContainsDotDot(input) ==
    \E i \in DOMAIN input : i < Len(input) /\ input[i] = "." /\ input[i + 1] = "."

\* the fields of a dotted text
RECURSIVE Fields(_, _)
Fields(text, field) ==
    IF text = << >> THEN <<field>>
    ELSE IF Head(text) = "." THEN <<field>> \o Fields(Tail(text), << >>)
    ELSE Fields(Tail(text), Append(field, Head(text)))

\* a decimal field of an IPv4 address over the digit "1": 1, 11 or 111
IsOctet(field) ==
    /\ Len(field) \in 1..3
    /\ \A i \in DOMAIN field : field[i] = "1"

\* ValidateIP: net.ParseIP, which over this alphabet accepts the dotted quads
ValidateIP(input) ==
    LET fs == Fields(input, << >>)
    IN  IF Len(fs) = 4 /\ \A i \in DOMAIN fs : IsOctet(fs[i])
        THEN NoErr
        ELSE Err("invalid IP address", 0)

\* mutant: ValidateDomain without the test for consecutive dots
ValidateDomain_NoDoubleDot(input) ==
    IF input = << >> THEN Err("domain cannot be empty", 0)
    ELSE IF ~ContainsChar(input, ".") THEN Err("invalid domain: must contain TLD", 0)
    ELSE IF Head(input) = "." \/ input[Len(input)] = "."
    THEN Err("invalid domain: cannot start or end with dot", 0)
    ELSE IF ContainsChar(input, " ") THEN Err("invalid domain: cannot contain spaces", 0)
    ELSE NoErr

\* ValidateDomain
ValidateDomain(input) ==
    IF input = << >> THEN Err("domain cannot be empty", 0)
    ELSE IF ~ContainsChar(input, ".") THEN Err("invalid domain: must contain TLD", 0)
    ELSE IF Head(input) = "." \/ input[Len(input)] = "."
    THEN Err("invalid domain: cannot start or end with dot", 0)
    ELSE IF ContainsDotDot(input)
    THEN Err("invalid domain: cannot contain consecutive dots", 0)
    ELSE IF ContainsChar(input, " ") THEN Err("invalid domain: cannot contain spaces", 0)
    ELSE NoErr

\* the validation main applies in each mode
Validate(m, input) == IF m = "dns" THEN ValidateIP(input) ELSE ValidateDomain(input)

\* mutant: comment lines are not skipped
Skipped_OnlyEmpty(input) == input = << >>

\* input == "" || input[0] == '#'
Skipped(input) == IF input = << >> THEN TRUE ELSE Head(input) = "#"

\* the input as the text put into the URL
RECURSIVE Render(_)
Render(input) == IF input = << >> THEN "" ELSE Head(input) \o Render(Tail(input))

\* time.Now().Format("2006-01-02 15:04:05")
Timestamp(t) == "time " \o ToString(t)

\* fmt.Sprintf("%s [%s] %s %s\n", timestamp, mode, input, message): the fields
\* of the line, which are separated by single spaces
LogLine(t, a) == <<Timestamp(t), "[" \o a.mode \o "]", a.input, a.message>>

\* mutant: the file written from its start, as when opened without O_APPEND
Log_Overwrite(lg, t, a, wrOK) ==
    IF lg.file = "open" /\ wrOK
    THEN [lg EXCEPT !.content = <<LogLine(t, a)>>,
                    !.calls = @ + 1, !.written = @ + 1, !.args = a, !.err = NoErr]
    ELSE [lg EXCEPT !.calls = @ + 1, !.args = a,
                    !.err = Err("failed to write to log", 0)]

\* ErrorLogger.Log: WriteString fails on a closed file, and may fail on an open
\* one (wrOK false), in which case nothing is taken to reach the file
Log(lg, t, a, wrOK) ==
    IF lg.file = "open" /\ wrOK
    THEN [lg EXCEPT !.content = Append(@, LogLine(t, a)),
                    !.calls = @ + 1, !.written = @ + 1, !.args = a, !.err = NoErr]
    ELSE [lg EXCEPT !.calls = @ + 1, !.args = a,
                    !.err = Err("failed to write to log", 0)]

\* ErrorLogger.Close: l.file is never nil once NewErrorLogger has succeeded, and
\* os.File.Close returns an error on a file that is closed already
Close(lg) ==
    IF lg.file = "open" THEN [lg EXCEPT !.file = "closed", !.err = NoErr]
    ELSE [lg EXCEPT !.err = Err("file already closed", 0)]

\* NewErrorLogger: O_CREATE|O_APPEND|O_WRONLY keeps what the file holds
NewErrorLogger(old) == [NoLogger EXCEPT !.file = "open", !.content = old, !.pre = old]

\* err.Error()
ErrorText(err) ==
    IF err.code = 0 THEN err.kind ELSE err.kind \o " " \o ToString(err.code)

\* the entry main hands to logger.Log
Entry(lg) == [mode |-> lg.mode, input |-> Render(lg.input), message |-> ErrorText(lg.err)]

\* logger.Log(mode, input, err.Error()) in the passes of the loop that count a
\* failure; main ignores what Log returns, and the write to the open file is
\* taken to succeed
WriteLog ==
    logger' = IF main'.logged = main.logged + 1
              THEN Log(logger, now', Entry(main'.lastLog), TRUE)
              ELSE logger

ErrorMsg == <<Txt("Error:")>>
ErrorQueryingMsg == <<Txt("Error querying")>>
ErrorReadingMsg == <<Txt("Error reading stdin")>>

\* main after SanitizeInput(scanner.Text()), about to handle the line
NextLine(mn, input) ==
    [mn EXCEPT !.lineNo = @ + 1, !.input = input, !.stdout = << >>, !.scan = "line"]

\* mutant: a failed query ends the run
AfterQuery_StopOnFailure(mn, m, cl, n) ==
    LET parser == NewResponseParser(cl.Verbose)
    IN  IF n.ret.err # NoErr
        THEN [main |-> [mn EXCEPT !.failureCount = @ + 1, !.processed = @ + 1,
                                  !.logged = @ + 1,
                                  !.lastLog = [mode |-> m, input |-> mn.input, err |-> n.ret.err],
                                  !.pc = "exited", !.exit = 1],
              stderr |-> n.stderr \o If(cl.Verbose, ErrorQueryingMsg)]
        ELSE [main |-> [mn EXCEPT !.good = @ + 1, !.processed = @ + 1,
                                  !.stdout = Parse(parser, n.ret.body).Data,
                                  !.pc = "loop"],
              stderr |-> n.stderr \o ParseEcho(parser, n.ret.body)]

\* main once the query of the current line has returned n.ret: count and log
\* a failure, or parse the body and print its data lines
AfterQuery(mn, m, cl, n) ==
    LET parser == NewResponseParser(cl.Verbose)
    IN  IF n.ret.err # NoErr
        THEN [main |-> [mn EXCEPT !.failureCount = @ + 1, !.processed = @ + 1,
                                  !.logged = @ + 1,
                                  !.lastLog = [mode |-> m, input |-> mn.input, err |-> n.ret.err],
                                  !.pc = "loop"],
              stderr |-> n.stderr \o If(cl.Verbose, ErrorQueryingMsg)]
        ELSE [main |-> [mn EXCEPT !.good = @ + 1, !.processed = @ + 1,
                                  !.stdout = Parse(parser, n.ret.body).Data,
                                  !.pc = "loop"],
              stderr |-> n.stderr \o ParseEcho(parser, n.ret.body)]

\* the step of the fetcher inside main: n is what the fetcher has become
Continue(mn, n) ==
    IF n.pc = "returned"
    THEN LET a == AfterQuery(mn, mode, c, n)
         IN  /\ main' = a.main
             /\ Become([n EXCEPT !.stderr = a.stderr])
    ELSE /\ main' = [mn EXCEPT !.pc = "query"]
         /\ Become(n)

\* the request made in this step, for the line it belongs to
Record(line, lat) ==
    trace' = <<trace[2], [line |-> line, start |-> IssueTime(c, now),
                          end |-> IssueTime(c, now) + lat]>>

\* one pass of the input loop: a line that is empty or a comment
MainSkip(text) ==
    /\ main.pc = "loop"
    /\ main.lineNo < MaxInputs
    /\ LET input == SanitizeInput(text)
       IN  /\ Skipped(input)
           /\ main' = NextLine(main, input)
    /\ stderr' = << >>
    /\ UNCHANGED <<variant, site, mode, c, now, pc, q, reqs, delivered, ret,
                   issued, lastOut, lastRes, queries, parse, trace, check,
                   logger, lastCb>>

\* mutant: a line that fails validation is counted and not logged
MainInvalid_Unlogged(text) ==
    /\ main.pc = "loop"
    /\ main.lineNo < MaxInputs
    /\ LET input == SanitizeInput(text)
           err == Validate(mode, input)
       IN  /\ ~Skipped(input)
           /\ err # NoErr
           /\ main' = [NextLine(main, input) EXCEPT
                          !.failureCount = @ + 1, !.processed = @ + 1]
    /\ stderr' = If(c.Verbose, ErrorMsg)
    /\ UNCHANGED <<variant, site, mode, c, now, pc, q, reqs, delivered, ret,
                   issued, lastOut, lastRes, queries, parse, trace, check,
                   lastCb>>
    /\ WriteLog

\* one pass of the input loop: a line that fails validation
MainInvalid(text) ==
    /\ main.pc = "loop"
    /\ main.lineNo < MaxInputs
    /\ LET input == SanitizeInput(text)
           err == Validate(mode, input)
       IN  /\ ~Skipped(input)
           /\ err # NoErr
           /\ main' = [NextLine(main, input) EXCEPT
                          !.failureCount = @ + 1, !.processed = @ + 1,
                          !.logged = @ + 1,
                          !.lastLog = [mode |-> mode, input |-> input, err |-> err]]
    /\ stderr' = If(c.Verbose, ErrorMsg)
    /\ UNCHANGED <<variant, site, mode, c, now, pc, q, reqs, delivered, ret,
                   issued, lastOut, lastRes, queries, parse, trace, check,
                   lastCb>>
    /\ WriteLog

\* one pass of the input loop: a valid line, up to the first loop test of its
\* query (and to the end of the pass when the query returns at once)
MainQuery(text, out, lat) ==
    /\ main.pc = "loop"
    /\ main.lineNo < MaxInputs
    /\ variant = "string"
    /\ LET input == SanitizeInput(text)
           endpoint == Endpoint(mode, Render(input))
           url == FirstURL(c, endpoint)
       IN  /\ ~Skipped(input)
           /\ Validate(mode, input) = NoErr
           /\ MakeRequest(url, out, lat)
           /\ Continue(NextLine(main, input),
                       StringFirst(c, endpoint, RequestResult(site, url, out)))
    /\ Record(main.lineNo + 1, lat)
    /\ queries' = queries + 1
    /\ UNCHANGED <<variant, site, mode, parse, check, lastCb>>
    /\ WriteLog

\* the query of the current line: one pass through its pagination loop
MainPage(out, lat) ==
    /\ main.pc = "query"
    /\ pc = "paging"
    /\ MakeRequest(q.nextURL, out, lat)
    /\ Continue(main, StringPage(c, q, stderr, RequestResult(site, q.nextURL, out)))
    /\ Record(main.lineNo, lat)
    /\ UNCHANGED <<variant, site, mode, queries, parse, check, lastCb>>
    /\ WriteLog

\* scanner.Scan() returns false: the end of the input or a read error
MainEnd(scanErr) ==
    /\ main.pc = "loop"
    /\ main' = [main EXCEPT !.pc = "exited",
                            !.scan = IF scanErr THEN "error" ELSE "eof",
                            !.exit = IF scanErr \/ main.failureCount > 0 THEN 1 ELSE 0]
    /\ stderr' = If(scanErr, ErrorReadingMsg)
    /\ UNCHANGED <<variant, site, mode, c, now, pc, q, reqs, delivered, ret,
                   issued, lastOut, lastRes, queries, parse, trace, check,
                   logger, lastCb>>

\* the lines the standard input is made of
StdinLines ==
    { << >>,
      <<" ">>,
      <<"#", "a">>,
      <<" ", "a", ".", "a", " ">>,
      <<"a">>,
      <<"a", ".", ".", "a">>,
      <<"1", ".", "1", "1", ".", "1", ".", "1">> }

MainSites == {"single", "chain"}

\* the command lines: each mode flag given or not, -v, -l and -r
Flags ==
    [dns : BOOLEAN, subs : BOOLEAN, cname : BOOLEAN, v : BOOLEAN,
     l : {-1, 0}, r : {-1, 0}]

\* modeCount and mode after the three tests of the mode flags
ModeCount(f) ==
    (IF f.dns THEN 1 ELSE 0) + (IF f.subs THEN 1 ELSE 0) + (IF f.cname THEN 1 ELSE 0)

ModeOf(f) ==
    IF f.cname THEN "cname" ELSE IF f.subs THEN "subs" ELSE IF f.dns THEN "dns" ELSE ""

\* what flag.Usage() prints
UsageMsg == <<Txt("Usage")>>
NoModeMsg == <<Txt("Error: must specify one mode: -dns, -subs, or -cname")>>
MultipleModesMsg == <<Txt("Error: cannot specify multiple modes")>>
NegativeLimitMsg == <<Txt("Error: limit cannot be negative")>>
NegativeRateMsg == <<Txt("Error: rate limit cannot be negative")>>
LoggerFailedMsg == <<Txt("Failed to initialize error logger")>>

\* the message of the first flag test that fails, << >> when none does
FlagError(f) ==
    IF ModeCount(f) = 0 THEN NoModeMsg \o UsageMsg
    ELSE IF ModeCount(f) > 1 THEN MultipleModesMsg \o UsageMsg
    ELSE IF f.l < 0 THEN NegativeLimitMsg
    ELSE IF f.r < 0 THEN NegativeRateMsg
    ELSE << >>

\* the client before NewAPIClient is called
NoClient == NewAPIClient("", 0, 0, FALSE)

\* mutant: the error log opened before the flags are looked at
MainFlags_LogFirst(logOK) ==
    /\ main.pc = "flags"
    /\ LET f == main.flags
       IN  IF ~logOK
           THEN /\ main' = [main EXCEPT !.pc = "exited", !.exit = 1]
                /\ stderr' = LoggerFailedMsg
                /\ UNCHANGED <<mode, c, logger>>
           ELSE IF FlagError(f) # << >>
           THEN /\ main' = [main EXCEPT !.pc = "exited", !.exit = 1]
                /\ stderr' = FlagError(f)
                /\ logger' = NewErrorLogger(<< >>)
                /\ UNCHANGED <<mode, c>>
           ELSE /\ main' = [main EXCEPT !.pc = "loop"]
                /\ mode' = ModeOf(f)
                /\ c' = NewAPIClient(BaseURL, f.l, f.r, f.v)
                /\ logger' = NewErrorLogger(<< >>)
                /\ stderr' = << >>
    /\ UNCHANGED <<variant, site, now, pc, q, reqs, delivered, ret, issued,
                   lastOut, lastRes, queries, parse, trace, check, lastCb>>

\* main from flag.Parse to the first Scan: the tests of the flags, then the
\* error log, the client and the parser
MainFlags(logOK) ==
    /\ main.pc = "flags"
    /\ LET f == main.flags
       IN  IF FlagError(f) # << >>
           THEN /\ main' = [main EXCEPT !.pc = "exited", !.exit = 1]
                /\ stderr' = FlagError(f)
                /\ UNCHANGED <<mode, c, logger>>
           ELSE IF ~logOK
           THEN /\ main' = [main EXCEPT !.pc = "exited", !.exit = 1]
                /\ stderr' = LoggerFailedMsg
                /\ UNCHANGED <<mode, c, logger>>
           ELSE /\ main' = [main EXCEPT !.pc = "loop"]
                /\ mode' = ModeOf(f)
                /\ c' = NewAPIClient(BaseURL, f.l, f.r, f.v)
                /\ logger' = NewErrorLogger(<< >>)
                /\ stderr' = << >>
    /\ UNCHANGED <<variant, site, now, pc, q, reqs, delivered, ret, issued,
                   lastOut, lastRes, queries, parse, trace, check, lastCb>>

\* the variables of a run of main that main has not touched yet
MainUntouched ==
    /\ variant = "string"
    /\ now = 1
    /\ pc = "idle"
    /\ q = NoQuery
    /\ reqs = << >>
    /\ delivered = << >>
    /\ stderr = << >>
    /\ ret = [body |-> NoBody, err |-> NoErr]
    /\ issued = <<0, 0>>
    /\ lastOut = NoOutcome
    /\ lastRes = NoResult
    /\ lastCb = "none"
    /\ queries = 0
    /\ parse = NoParse
    /\ trace = NoTrace
    /\ check = NoCheck

\* main with its flags parsed and the error log open, before the first Scan
InitMain ==
    /\ MainUntouched
    /\ site \in MainSites
    /\ \E f \in Flags :
          /\ FlagError(f) = << >>
          /\ mode = ModeOf(f)
          /\ c = NewAPIClient(BaseURL, f.l, f.r, f.v)
          /\ main = [NoMain EXCEPT !.pc = "loop", !.flags = f]
    /\ logger = NewErrorLogger(<< >>)

NextMain ==
    \/ \E text \in StdinLines : MainSkip(text)
    \/ \E text \in StdinLines : MainInvalid(text)
    \/ \E text \in StdinLines, out \in Outcomes, lat \in Latencies :
          MainQuery(text, out, lat)
    \/ \E out \in Outcomes, lat \in Latencies : MainPage(out, lat)
    \/ \E scanErr \in BOOLEAN : MainEnd(scanErr)

SpecMain == InitMain /\ [][NextMain]_vars

\* main from its start, before flag.Parse, for one service
InitStart ==
    /\ MainUntouched
    /\ site = "chain"
    /\ mode = ""
    /\ c = NoClient
    /\ \E f \in Flags : main = [NoMain EXCEPT !.pc = "flags", !.flags = f]
    /\ logger = NoLogger

NextStart ==
    \/ \E logOK \in BOOLEAN : MainFlags(logOK)
    \/ NextMain

SpecStart == InitStart /\ [][NextStart]_vars

\* ------------------------------------------- the validator on its own
\* the sequences of at most n elements of S
RECURSIVE SeqsUpTo(_, _)
SeqsUpTo(S, n) ==
    IF n = 0 THEN {<< >>}
    ELSE LET shorter == SeqsUpTo(S, n - 1)
         IN  shorter \cup {Append(t, x) : t \in shorter, x \in S}

\* the characters input strings are made of
Chars == {"a", "1", ".", " ", "#"}

\* every string of at most MaxChars characters
Strings == SeqsUpTo(Chars, MaxChars)

\* the client and main of a run in which neither is used
Unused ==
    /\ variant = "callback"
    /\ site = "single"
    /\ mode = "subs"
    /\ c = NewAPIClient(BaseURL, 0, 0, FALSE)
    /\ now = 1
    /\ pc = "idle"
    /\ q = NoQuery
    /\ reqs = << >>
    /\ delivered = << >>
    /\ stderr = << >>
    /\ ret = [body |-> NoBody, err |-> NoErr]
    /\ issued = <<0, 0>>
    /\ lastOut = NoOutcome
    /\ lastRes = NoResult
    /\ lastCb = "none"
    /\ queries = 0
    /\ parse = NoParse
    /\ main = NoMain
    /\ trace = NoTrace

\* ValidateDomain(input), as TestValidateDomain calls it
ValidateCall ==
    /\ check.on
    /\ ~check.done
    /\ check' = [check EXCEPT !.done = TRUE, !.err = ValidateDomain(check.input)]
    /\ UNCHANGED <<variant, site, mode, c, now, pc, q, reqs, delivered, stderr,
                   ret, issued, lastOut, lastRes, queries, parse, main, trace,
                   logger, lastCb>>

InitValidate ==
    /\ Unused
    /\ \E input \in Strings : check = [NoCheck EXCEPT !.on = TRUE, !.input = input]
    /\ logger = NoLogger

NextValidate == ValidateCall

SpecValidate == InitValidate /\ [][NextValidate]_vars

\* ---------------------------------------------- the error logger on its own
\* the calls TestErrorLogger_Log and TestErrorLogger_MultipleLogs make
LogArgs ==
    {[mode |-> "dns", input |-> "1.1.1.1", message |-> "connection timeout"],
     [mode |-> "subs", input |-> "example.com", message |-> "error 2"],
     [mode |-> "cname", input |-> "test.com", message |-> "error 3"]}

\* what the log file may hold when NewErrorLogger opens it
OldContents == {<< >>, <<LogLine(0, [mode |-> "dns", input |-> "9.9.9.9",
                                     message |-> "error 0"])>>}

LogCall(a, wrOK) ==
    /\ logger.file # "none"
    /\ logger.calls < MaxLogs
    /\ logger' = Log(logger, now, a, wrOK)
    /\ UNCHANGED <<variant, site, mode, c, now, pc, q, reqs, delivered, stderr,
                   ret, issued, lastOut, lastRes, queries, parse, main, trace,
                   check, lastCb>>

CloseCall ==
    /\ logger.file # "none"
    /\ logger' = Close(logger)
    /\ UNCHANGED <<variant, site, mode, c, now, pc, q, reqs, delivered, stderr,
                   ret, issued, lastOut, lastRes, queries, parse, main, trace,
                   check, lastCb>>

\* NewErrorLogger(filename) has succeeded
InitLog ==
    /\ Unused
    /\ check = NoCheck
    /\ \E old \in OldContents : logger = NewErrorLogger(old)

NextLog ==
    \/ \E a \in LogArgs, wrOK \in BOOLEAN : LogCall(a, wrOK)
    \/ CloseCall
    \/ Tick

SpecLog == InitLog /\ [][NextLog]_vars

\* ------------------------------------------------ the parser on its own
P2URL == MkURL(BaseURL, "/p2", 0)
P3URL == MkURL(BaseURL, "/p3", 0)

\* the lines the payloads of the parser runs are made of
LineSet ==
    { << >>,
      <<Sp, Txt("a.com"), Sp>>,
      <<Txt("b.com"), Ansi>>,
      <<Cmt("note")>>,
      <<Ent(<<2>>, <<1, 0>>)>>,
      <<Sp, Ent(<<0, 5>>, <<5>>)>>,
      <<Ent(<<0>>, <<0>>)>>,
      <<Cmt("x"), Ansi, Ent(<<7>>, <<3>>)>>,
      <<NextTok(P2URL)>>,
      <<Cmt("see"), Sp, NextTok(P3URL), Sp, Ent(<<1>>, <<4>>)>>,
      <<Ansi, Cmt("tinted")>>,
      <<Ansi>>,
      <<Cmt("Entries: n/a, Next Page: none")>>,
      <<Ansi, Ent(<<3>>, <<9>>), Sp, NextTok(P3URL)>> }

\* strings.Split(body, "\n") never yields an empty list
Payloads == SeqsUpTo(LineSet, MaxLines) \ {<< >>}

\* NewResponseParser(verbose).Parse(body), as the tests of parser_test.go call it
ParseCall ==
    /\ ~parse.done
    /\ parse.body # NoBody
    /\ LET p == NewResponseParser(parse.verbose)
       IN  parse' = [parse EXCEPT !.done = TRUE,
                                  !.result = Parse(p, parse.body),
                                  !.echo = ParseEcho(p, parse.body)]
    /\ UNCHANGED <<variant, site, mode, c, now, pc, q, reqs, delivered, stderr,
                   ret, issued, lastOut, lastRes, queries, main, trace, check,
                   logger, lastCb>>

InitParse ==
    /\ variant = "callback"
    /\ site = "single"
    /\ mode = "subs"
    /\ c = NewAPIClient(BaseURL, 0, 0, FALSE)
    /\ now = 1
    /\ pc = "idle"
    /\ q = NoQuery
    /\ reqs = << >>
    /\ delivered = << >>
    /\ stderr = << >>
    /\ ret = [body |-> NoBody, err |-> NoErr]
    /\ issued = <<0, 0>>
    /\ lastOut = NoOutcome
    /\ lastRes = NoResult
    /\ lastCb = "none"
    /\ queries = 0
    /\ \E body \in Payloads, verbose \in BOOLEAN :
          parse = [NoParse EXCEPT !.body = body, !.verbose = verbose]
    /\ main = NoMain
    /\ trace = NoTrace
    /\ check = NoCheck
    /\ logger = NoLogger

NextParse == ParseCall

SpecParse == InitParse /\ [][NextParse]_vars

\* ------------------------------------------------------------ properties
Succeeded(out) == out.net = "ok" /\ out.status = StatusOK /\ out.read = "ok"
Failed(out) == out.net # "none" /\ ~Succeeded(out)

Quiet == NewResponseParser(FALSE)

\* the page the service returns for the i-th request of the current query
PageOf(i) == Parse(Quiet, Respond(site, reqs[i]))

\* the data lines of the pages of the first n requests, in fetch order
RECURSIVE FetchedData(_)
FetchedData(n) == IF n = 0 THEN << >> ELSE FetchedData(n - 1) \o PageOf(n).Data

\* what the callback has received so far, page after page
RECURSIVE DeliveredData(_)
DeliveredData(n) ==
    IF n = 0 THEN << >> ELSE DeliveredData(n - 1) \o delivered[n].results

\* the text of a paginated result carrying the given data lines
TextOf(data) == SelectSeq(Respond(site, reqs[1]), IsMetaLine) \o data \o << << >> >>

\* a pagination request (not the first request) of the current query has failed
PaginationFailed == pc = "returned" /\ Len(reqs) >= 2 /\ Failed(lastOut)

C2_FirstFailureIsFatal ==
    (Len(reqs) = 1 /\ Failed(lastOut)) =>
        /\ pc = "returned"
        /\ ret.err # NoErr
        /\ ret.body = NoBody
        /\ delivered = << >>
        /\ (lastOut.net = "ok" /\ lastOut.status # StatusOK) =>
              ret.err = Err("status", lastOut.status)

C2_Witness ==
    /\ pc = "returned"
    /\ Len(reqs) = 1
    /\ lastOut.status = 500
    /\ ret.err = Err("status", 500)
    /\ queries = 2

\* C3 (as claimed): without a page-size override, a first page that reports
\* currentCount < totalCount and carries no next-page link makes the fetcher
\* request the same endpoint again with l = totalCount, so that 2/10 followed
\* by 10/10 takes exactly 2 requests.
C3_SizeRerequest ==
    (/\ pc = "returned"
     /\ c.Limit = 0
     /\ ret.err = NoErr
     /\ reqs # << >>
     /\ PageOf(1).NextPageURL = NoURL
     /\ PageOf(1).CurrentCount < PageOf(1).TotalCount)
    => (/\ Len(reqs) = 2
        /\ reqs[2] = MkURL(c.BaseURL, q.endpoint, PageOf(1).TotalCount))

FirstSucceeded == reqs # << >> /\ (Len(reqs) = 1 => Succeeded(lastOut))

\* C5: when HasMore of the first page is false the query makes exactly one
\* request, returns success, and its result is the first page unchanged: the
\* raw body in queryWithPagination, the page's data in one callback call in
\* queryWithCallback (whose only other outcome is the callback's own error).
C5_CompleteFirstPage ==
    (pc = "returned" /\ FirstSucceeded /\ ~HasMore(PageOf(1))) =>
        /\ Len(reqs) = 1
        /\ variant = "string" => ret = [body |-> Respond(site, reqs[1]), err |-> NoErr]
        /\ variant = "callback" =>
              /\ delivered = <<Call(PageOf(1).Data, 1, PageOf(1).TotalCount)>>
              /\ ret.err \in {NoErr, CallbackErr}

C5_Witness ==
    /\ pc = "returned"
    /\ c.Limit = 0
    /\ site = "single"
    /\ variant = "string"
    /\ Succeeded(lastOut)
    /\ Len(ret.body) = 6

\* C6: a query never makes more than 100 requests, also when the next-page
\* links form a cycle; reaching the cap is not an error: the query returns
\* success with everything fetched.
C6_PageCap ==
    /\ Len(reqs) <= MaxPages
    /\ q.pageCount <= MaxPages
    /\ (pc = "returned" /\ Len(reqs) = MaxPages /\ Succeeded(lastOut)
          /\ ret.err # CallbackErr) =>
          /\ ret.err = NoErr
          /\ variant = "string" => ret.body = TextOf(FetchedData(MaxPages))
          /\ variant = "callback" =>
                /\ Len(delivered) = MaxPages
                /\ DeliveredData(MaxPages) = FetchedData(MaxPages)

C6_Witness ==
    /\ pc = "returned"
    /\ Len(reqs) = MaxPages
    /\ Succeeded(lastOut)
    /\ ret.err = NoErr
    /\ reqs[MaxPages] = reqs[MaxPages - 2]

\* C7 (as claimed): with a rate limit d > 0 any two consecutive requests of
\* one client go out at least d apart, whichever query they belong to and
\* whether the earlier one succeeded or failed.
C7_MinSpacing ==
    (c.RateLimit > 0 /\ issued[1] # 0) => issued[2] - issued[1] >= c.RateLimit

\* the counters of the metadata lines of a payload that carry ";;Entries: a/b",
\* in payload order
RECURSIVE MetaEntries(_)
MetaEntries(body) ==
    IF body = << >> THEN << >>
    ELSE LET m == SelectSeq(Head(body), IsEnt)
         IN  (IF IsMetaLine(Head(body)) /\ m # << >>
              THEN <<[a |-> Atoi(m[1].a), b |-> Atoi(m[1].b)]>>
              ELSE << >>) \o MetaEntries(Tail(body))

\* the URLs of the metadata lines of a payload that carry ";;Next Page: <url>"
RECURSIVE MetaLinks(_)
MetaLinks(body) ==
    IF body = << >> THEN << >>
    ELSE LET m == SelectSeq(Head(body), IsNext)
         IN  (IF IsMetaLine(Head(body)) /\ m # << >> THEN <<m[1].u>> ELSE << >>)
               \o MetaLinks(Tail(body))

Last(seq) == seq[Len(seq)]

\* C8 (as claimed): HasMore is true exactly when a next-page link is present,
\* or none is present and currentCount < totalCount, except that counters
\* that are both 0 force it to false.
C8_HasMoreZeroForced ==
    parse.done =>
        LET r == parse.result
            link == r.NextPageURL # NoURL
            zero == r.CurrentCount = 0 /\ r.TotalCount = 0
        IN  HasMore(r) <=> ((link \/ (~link /\ r.CurrentCount < r.TotalCount)) /\ ~zero)

\* C8 (amended): HasMore is true exactly when a next-page link is present, or
\* none is present and currentCount < totalCount; counters that are both 0
\* give false only when no link is present, and without a link
\* currentCount > totalCount gives false.
C8_HasMore ==
    parse.done =>
        LET r == parse.result
            link == r.NextPageURL # NoURL
            zero == r.CurrentCount = 0 /\ r.TotalCount = 0
        IN  /\ link => HasMore(r)
            /\ (~link /\ zero) => ~HasMore(r)
            /\ (~link /\ ~zero) => (HasMore(r) <=> r.CurrentCount < r.TotalCount)
            /\ (~link /\ r.CurrentCount > r.TotalCount) => ~HasMore(r)

C8_Witness ==
    /\ parse.done
    /\ parse.result.NextPageURL = P2URL
    /\ parse.result.CurrentCount = 0
    /\ parse.result.TotalCount = 0
    /\ HasMore(parse.result)

\* C9 (as claimed): a payload with an ";;Entries: a/b" metadata line with a = b
\* has HasMore false.
C9_EqualCountsComplete ==
    (parse.done /\ \E i \in DOMAIN MetaEntries(parse.body) :
                        MetaEntries(parse.body)[i].a = MetaEntries(parse.body)[i].b)
    => ~HasMore(parse.result)

\* C9 (amended): a payload whose last ";;Entries: a/b" metadata line has a = b
\* and which has no next-page link has HasMore false.
C9_LastEqualNoLink ==
    (/\ parse.done
     /\ MetaEntries(parse.body) # << >>
     /\ Last(MetaEntries(parse.body)).a = Last(MetaEntries(parse.body)).b
     /\ MetaLinks(parse.body) = << >>)
    => ~HasMore(parse.result)

C9_Witness ==
    /\ parse.done
    /\ Len(MetaEntries(parse.body)) = 2
    /\ MetaEntries(parse.body)[1] = [a |-> 2, b |-> 10]
    /\ MetaEntries(parse.body)[2] = [a |-> 5, b |-> 5]
    /\ MetaLinks(parse.body) = << >>
    /\ parse.result.CurrentCount = 5
    /\ ~HasMore(parse.result)

\* C10 (as claimed): a payload with an ";;Entries: a/b" metadata line with
\* a < b and no next-page link parses to currentCount = a, totalCount = b and
\* HasMore true.
C10_PartialCountsMore ==
    (parse.done /\ MetaLinks(parse.body) = << >>) =>
        \A i \in DOMAIN MetaEntries(parse.body) :
            LET e == MetaEntries(parse.body)[i]
            IN  e.a < e.b =>
                  /\ parse.result.CurrentCount = e.a
                  /\ parse.result.TotalCount = e.b
                  /\ HasMore(parse.result)

\* C10 (amended): a payload whose last ";;Entries: a/b" metadata line has
\* a < b (both within the range of int) and which has no next-page link parses
\* to currentCount = a, totalCount = b and HasMore true.
C10_LastPartialNoLink ==
    (/\ parse.done
     /\ MetaLinks(parse.body) = << >>
     /\ MetaEntries(parse.body) # << >>
     /\ Last(MetaEntries(parse.body)).a < Last(MetaEntries(parse.body)).b)
    => (/\ parse.result.CurrentCount = Last(MetaEntries(parse.body)).a
        /\ parse.result.TotalCount = Last(MetaEntries(parse.body)).b
        /\ HasMore(parse.result))

C10_Witness ==
    /\ parse.done
    /\ MetaLinks(parse.body) = << >>
    /\ Len(MetaEntries(parse.body)) = 2
    /\ MetaEntries(parse.body)[1] = [a |-> 7, b |-> 3]
    /\ parse.result.CurrentCount = 2
    /\ parse.result.TotalCount = 10
    /\ Len(parse.result.Data) = 1
    /\ HasMore(parse.result)

\* a line of a payload that Parse takes for data: not empty once trimmed and
\* not starting with ';'
IsDataLine(line) == TrimSpace(line) # << >> /\ ~HasPrefixSemi(TrimSpace(line))

DataLinesOf(body) == SelectSeq(body, IsDataLine)
MetaLinesOf(body) == SelectSeq(body, IsMetaLine)

\* C11: a payload with no ";;Entries: a/b" metadata line and no next-page
\* link (the empty payload and comment-only payloads included) parses to
\* currentCount = 0 and totalCount = 0, and HasMore of the result is false.
C11_NoMetadataDefaults ==
    (/\ parse.done
     /\ MetaEntries(parse.body) = << >>
     /\ MetaLinks(parse.body) = << >>)
    => (/\ parse.result.CurrentCount = 0
        /\ parse.result.TotalCount = 0
        /\ ~HasMore(parse.result))

C11_Witness ==
    /\ parse.done
    /\ parse.body = <<<<Cmt("note")>>, << >>, <<Cmt("Entries: n/a, Next Page: none")>>>>
    /\ parse.result.CurrentCount = 0
    /\ parse.result.TotalCount = 0
    /\ parse.result.Data = << >>
    /\ ~HasMore(parse.result)

\* C12: Data holds exactly the payload's lines that are not empty once trimmed
\* and do not start with ';', in payload order, each trimmed and then stripped
\* of its colour escapes; blank lines and metadata lines add nothing, so Data
\* has as many elements as the payload has such lines.
C12_DataLines ==
    parse.done =>
        LET data == parse.result.Data
            kept == DataLinesOf(parse.body)
        IN  /\ Len(data) = Len(kept)
            /\ Len(data) + Len(MetaLinesOf(parse.body))
                 + Len(SelectSeq(parse.body, LAMBDA l : TrimSpace(l) = << >>))
                 = Len(parse.body)
            /\ \A k \in DOMAIN data : data[k] = StripAnsi(TrimSpace(kept[k]))

C12_Witness ==
    /\ parse.done
    /\ parse.body = <<<<Sp, Txt("a.com"), Sp>>, <<Ent(<<2>>, <<1, 0>>)>>, <<Txt("b.com"), Ansi>>>>
    /\ parse.result.Data = <<<<Txt("a.com")>>, <<Txt("b.com")>>>>

\* C13: Parse returns a result for every payload; without a well-formed
\* ";;Entries: <int>/<int>" metadata line the counters stay 0, without a
\* ";;Next Page:" metadata line carrying an http(s) URL the link stays empty,
\* and the data lines are extracted all the same.
C13_NeverFails ==
    parse.body # NoBody =>
        LET r == Parse(NewResponseParser(parse.verbose), parse.body)
        IN  /\ parse.done => parse.result = r
            /\ r.CurrentCount \in Nat
            /\ r.TotalCount \in Nat
            /\ MetaEntries(parse.body) = << >> => r.CurrentCount = 0 /\ r.TotalCount = 0
            /\ MetaLinks(parse.body) = << >> => r.NextPageURL = NoURL
            /\ Len(r.Data) = Len(DataLinesOf(parse.body))

C13_Witness ==
    /\ parse.done
    /\ parse.body = <<<<Cmt("Entries: n/a, Next Page: none")>>,
                      <<Ansi, Ent(<<3>>, <<9>>), Sp, NextTok(P3URL)>>,
                      <<Sp, Txt("a.com"), Sp>>>>
    /\ parse.result.CurrentCount = 0
    /\ parse.result.NextPageURL = NoURL
    /\ Len(parse.result.Data) = 2

\* the trimmed form of every line of a sequence
Trimmed(lines) == [i \in DOMAIN lines |-> TrimSpace(lines[i])]

\* C14: with echo enabled Parse writes every metadata line of the payload to
\* stderr exactly once, in payload order, trimmed and with its colour escapes
\* intact, and writes no data line; with echo disabled it writes nothing.  Data
\* and counters are the same in both modes.
C14_Echo ==
    parse.done =>
        /\ parse.verbose => parse.echo = Trimmed(MetaLinesOf(parse.body))
        /\ ~parse.verbose => parse.echo = << >>
        /\ parse.result = Parse(NewResponseParser(~parse.verbose), parse.body)

C14_Witness ==
    /\ parse.done
    /\ parse.verbose
    /\ parse.body = <<<<Cmt("x"), Ansi, Ent(<<7>>, <<3>>)>>, <<Txt("b.com"), Ansi>>,
                      <<Sp, Ent(<<0, 5>>, <<5>>)>>>>
    /\ parse.echo = <<<<Cmt("x"), Ansi, Ent(<<7>>, <<3>>)>>, <<Ent(<<0, 5>>, <<5>>)>>>>

\* the number of requests of the current query that were answered with a page
Fetched == IF Failed(lastOut) THEN Len(reqs) - 1 ELSE Len(reqs)

\* queryWithPagination has returned after going past its two early returns
PaginationEntered ==
    /\ variant = "string"
    /\ pc = "returned"
    /\ c.Limit = 0
    /\ FirstSucceeded
    /\ HasMore(PageOf(1))

\* C15: when pagination was entered the returned text is the metadata lines
\* of the first page only, in their order, each followed by a line break, then
\* every collected data line in fetch order, each followed by a line break;
\* nothing of the metadata of the later pages is in it.
C15_Reconstructed ==
    PaginationEntered =>
        LET meta == MetaLinesOf(Respond(site, reqs[1]))
            data == FetchedData(Fetched)
        IN  /\ ret.err = NoErr
            /\ Len(ret.body) > Len(meta)
            /\ SubSeq(ret.body, 1, Len(meta)) = meta
            /\ SubSeq(ret.body, Len(meta) + 1, Len(ret.body) - 1) = data
            /\ ret.body[Len(ret.body)] = << >>

C15_Witness ==
    /\ PaginationEntered
    /\ site = "chain"
    /\ Len(reqs) = 3
    /\ Succeeded(lastOut)
    /\ Len(ret.body) = 10
    /\ ret.body[3] = <<NextTok(P2URL), Sp>>
    /\ ret.body[4] = D("a1")
    /\ ret.body[9] = D("a6")
    /\ \A i \in DOMAIN ret.body : ret.body[i] # <<Cmt("page two")>>

\* C16 (as claimed): parsing the reconstructed text of a paginated query gives
\* back, as Data, exactly the data lines accumulated over the fetched pages.
C16_RoundTrip ==
    PaginationEntered => Parse(Quiet, ret.body).Data = FetchedData(Fetched)

\* C17: no request is retried: once a request of a query has failed, the
\* query issues no further request (so a failed URL is not requested again).
C17_NoRetry ==
    [][(reqs # << >> /\ Failed(lastOut) /\ queries' = queries) => reqs' = reqs]_vars

C17_Witness ==
    /\ variant = "callback"
    /\ site = "chain"
    /\ pc = "returned"
    /\ Len(reqs) = 2
    /\ Failed(lastOut)
    /\ ret.err = Err("transport", 0)
    /\ Len(delivered) = 1

\* C19 (as claimed): with Limit = 200, a first page reporting 2/10 makes the
\* client request again with l=10; 2 requests are made and the result holds
\* the ten data lines of the second response.
C19_LimitedRerequest ==
    (/\ pc = "returned"
     /\ c.Limit = 200
     /\ site = "partial"
     /\ FirstSucceeded
     /\ ret.err = NoErr)
    => (/\ Len(reqs) = 2
        /\ reqs[2] = MkURL(c.BaseURL, q.endpoint, 10)
        /\ variant = "string" => Parse(Quiet, ret.body).Data = TenSubs
        /\ variant = "callback" => Last(delivered).results = TenSubs)

\* C18: queries never overlap: a request is issued only after the request
\* before it has completed, requests follow the order of the input lines, and
\* a line is taken up only after the query of the line before has returned.
C18_NoOverlap ==
    /\ trace[1].line # 0 =>
          /\ trace[1].end <= trace[2].start
          /\ trace[1].line <= trace[2].line
    /\ trace[2].start <= trace[2].end
    /\ trace[2].end <= now
    /\ main.pc \in {"loop", "exited"} => pc # "paging"

C18_Witness ==
    /\ trace[1] = [line |-> 1, start |-> 1, end |-> 2]
    /\ trace[2] = [line |-> 2, start |-> 2, end |-> 2]
    /\ Len(reqs) = 1
    /\ main.pc = "loop"

\* C20 (as claimed): the run exits with code 0 exactly when every processed
\* line passed validation and its query returned without error, and with code
\* 1 when at least one line failed.
C20_ExitCode ==
    main.pc = "exited" =>
        /\ main.exit = 0 <=> main.good = main.processed
        /\ main.good < main.processed => main.exit = 1

\* C20 (amended): the run leaves the input loop only when Scan returns false;
\* it exits with code 0 exactly when the input ended without a read error and
\* every processed line passed validation and its query returned without
\* error; it exits with code 1 when a line failed or reading the input failed.
\* A failed line is counted and the loop goes on.
C20_ExitCodeUnlessReadError ==
    /\ main.failureCount = main.processed - main.good
    /\ main.pc = "exited" =>
          /\ main.scan \in {"eof", "error"}
          /\ main.exit = 0 <=> (main.scan = "eof" /\ main.good = main.processed)
          /\ main.exit = 1 <=> (main.scan = "error" \/ main.good < main.processed)
    /\ (main.pc # "off" /\ main.scan = "line") => main.pc \in {"loop", "query"}

C20_Witness ==
    /\ main.pc = "exited"
    /\ main.scan = "eof"
    /\ main.lineNo = 2
    /\ main.processed = 2
    /\ main.good = 1
    /\ main.lastLog.err = Err("status", 500)
    /\ trace[1].line = 1
    /\ trace[2].line = 2
    /\ main.exit = 1

\* C23: QueryDNS(x) requests {base}/x, QuerySubdomains(x) {base}/sb/x and
\* QueryCNAME(x) {base}/cn/x; the first request carries l=<Limit> exactly when
\* Limit > 0 and no size parameter when Limit = 0.
C23_EndpointPaths ==
    reqs # << >> =>
        /\ reqs[1][1] = c.BaseURL
        /\ mode = "dns" => reqs[1][2] = "/example.com"
        /\ mode = "subs" => reqs[1][2] = "/sb/example.com"
        /\ mode = "cname" => reqs[1][2] = "/cn/example.com"
        /\ c.Limit > 0 => reqs[1][3] = c.Limit
        /\ c.Limit = 0 => reqs[1][3] = 0

C23_Witness ==
    /\ mode = "cname"
    /\ c.Limit = 2
    /\ pc = "returned"
    /\ reqs = <<MkURL(BaseURL, "/cn/example.com", 2)>>
    /\ Succeeded(lastOut)

\* C26 (as claimed): when the pagination loop has run and ends without a
\* failed request and below the page cap, the latest page has no next-page
\* link and HasMore of it is false.
C26_StopsOnlyWhenComplete ==
    (/\ pc = "returned"
     /\ Len(reqs) >= 2
     /\ ret.err = NoErr
     /\ Succeeded(lastOut)
     /\ Len(reqs) < MaxPages)
    => (/\ PageOf(Len(reqs)).NextPageURL = NoURL
        /\ ~HasMore(PageOf(Len(reqs))))

\* the page answered to the latest request, seen from the step that made it
NewPage == Parse(Quiet, Respond(site, reqs'[Len(reqs')]))

\* C28: in queryWithPagination the collected data starts as the Data of the
\* first page, every successful page appends its Data at the end, nothing is
\* removed or reordered, and pageCount starts at 1, grows by exactly 1 per
\* page requested and never exceeds 100.
C28_Accumulator ==
    [][variant = "string" =>
         /\ (queries' = queries + 1 /\ q'.pageCount >= 1) =>
               /\ q'.pageCount = 1
               /\ q'.allData = NewPage.Data
         /\ (queries' = queries /\ reqs' # reqs) =>
               /\ q'.pageCount = q.pageCount + 1
               /\ q'.pageCount = Len(reqs')
               /\ q'.pageCount <= MaxPages
               /\ Len(q'.allData) >= Len(q.allData)
               /\ SubSeq(q'.allData, 1, Len(q.allData)) = q.allData
               /\ q'.allData = IF Succeeded(lastOut') THEN q.allData \o NewPage.Data
                               ELSE q.allData]_vars

C28_Witness ==
    /\ variant = "string"
    /\ site = "chain"
    /\ pc = "returned"
    /\ q.pageCount = 3
    /\ q.allData = <<D("a1"), D("a2"), D("a3"), D("a4"), D("a5"), D("a6")>>

\* C29: of several metadata lines matching the Entries pattern the last one
\* gives the counters, of several matching the Next-page pattern the last one
\* gives the link, and a metadata line matching both sets both.
C29_LastMatchWins ==
    parse.done =>
        /\ MetaEntries(parse.body) # << >> =>
              /\ parse.result.CurrentCount = Last(MetaEntries(parse.body)).a
              /\ parse.result.TotalCount = Last(MetaEntries(parse.body)).b
        /\ MetaLinks(parse.body) # << >> =>
              parse.result.NextPageURL = Last(MetaLinks(parse.body))

C29_Witness ==
    /\ parse.done
    /\ parse.body = <<<<NextTok(P2URL)>>, <<Ent(<<2>>, <<1, 0>>)>>,
                      <<Cmt("see"), Sp, NextTok(P3URL), Sp, Ent(<<1>>, <<4>>)>>>>
    /\ parse.result.CurrentCount = 1
    /\ parse.result.TotalCount = 4
    /\ parse.result.NextPageURL = P3URL

\* C30 (as claimed): every element of Data is a non-empty text that does not
\* begin with ';' and holds no colour escape.
C30_CleanData ==
    parse.done =>
        \A k \in DOMAIN parse.result.Data :
            LET d == parse.result.Data[k]
            IN  /\ d # << >>
                /\ ~HasPrefixSemi(d)
                /\ \A i \in DOMAIN d : ~IsAnsi(d[i])

\* C27: every query terminates: when each request completes or fails, a query
\* that is in its pagination loop eventually returns a result or an error,
\* whatever the service answers, links that form a cycle included.
C27_Terminates == (pc = "paging") ~> (pc = "returned")

C27_Witness ==
    /\ site = "cycle"
    /\ variant = "callback"
    /\ pc = "returned"
    /\ q.pageCount = MaxPages
    /\ ret.err = NoErr
    /\ Len(delivered) = MaxPages

\* the strings the claim describes as domains
WellFormedDomain(input) ==
    /\ Len(input) >= 1
    /\ \E i \in DOMAIN input : input[i] = "."
    /\ input[1] # "."
    /\ input[Len(input)] # "."
    /\ \A i \in 1..(Len(input) - 1) : ~(input[i] = "." /\ input[i + 1] = ".")
    /\ \A i \in DOMAIN input : input[i] # " "

\* C25: ValidateDomain accepts a string exactly when it is non-empty, has a
\* dot, neither starts nor ends with a dot, has no two consecutive dots and no
\* space; it returns an error for every other string.
C25_ValidateDomain ==
    check.done =>
        IF Len(check.input) >= 1 /\ WellFormedDomain(check.input)
        THEN check.err = NoErr
        ELSE check.err # NoErr

C25_Witness ==
    /\ check.done
    /\ check.input = <<"a", ".", "1", "a">>
    /\ check.err = NoErr

\* the fields of a Log call are found in a line: the mode in brackets, the
\* input and the message
Holds(line, a) ==
    /\ \E i \in DOMAIN line : line[i] = "[" \o a.mode \o "]"
    /\ \E i \in DOMAIN line : line[i] = a.input
    /\ \E i \in DOMAIN line : line[i] = a.message

\* C24: every successful Log call appends exactly one line holding the mode in
\* brackets, the input and the message; n successful calls on a fresh file
\* leave n lines in call order; earlier lines, those found when the file was
\* opened included, are never changed or removed; Log after Close returns an
\* error and writes nothing.
C24_AppendOnly ==
    [][/\ Len(logger'.content) >= Len(logger.content)
       /\ SubSeq(logger'.content, 1, Len(logger.content)) = logger.content
       /\ SubSeq(logger'.content, 1, Len(logger'.pre)) = logger'.pre
       /\ Len(logger'.content) = Len(logger'.pre) + logger'.written
       /\ (logger'.calls = logger.calls + 1 /\ logger'.err = NoErr) =>
             /\ Len(logger'.content) = Len(logger.content) + 1
             /\ Holds(logger'.content[Len(logger'.content)], logger'.args)
       /\ (logger'.calls = logger.calls + 1 /\ logger.file = "closed") =>
             /\ logger'.err # NoErr
             /\ logger'.content = logger.content
       /\ logger'.calls = logger.calls => logger'.content = logger.content]_vars

C24_Witness ==
    /\ logger.pre # << >>
    /\ logger.file = "closed"
    /\ logger.calls = 3
    /\ logger.written = 2
    /\ logger.err # NoErr
    /\ Len(logger.content) = 3
    /\ Holds(logger.content[2], [mode |-> "subs", input |-> "example.com",
                                 message |-> "error 2"])
    /\ Holds(logger.content[3], [mode |-> "cname", input |-> "test.com",
                                 message |-> "error 3"])

\* a command line that main refuses
BadFlags(f) ==
    \/ ~(\E m \in {"dns", "subs", "cname"} : f[m] /\ \A o \in {"dns", "subs", "cname"} \ {m} : ~f[o])
    \/ f.l < 0
    \/ f.r < 0

\* C21: with no mode flag ("must specify one mode"), with more than one
\* ("cannot specify multiple modes"), with a negative limit or a negative rate
\* the program exits with code 1 before it reads a line, opens the error log or
\* issues a request.
C21_FlagErrors ==
    (main.pc # "flags" /\ BadFlags(main.flags)) =>
        /\ main.pc = "exited"
        /\ main.exit = 1
        /\ main.lineNo = 0
        /\ main.scan = "none"
        /\ logger.file = "none"
        /\ reqs = << >>
        /\ queries = 0
        /\ issued = <<0, 0>>
        /\ (~main.flags.dns /\ ~main.flags.subs /\ ~main.flags.cname) =>
              Head(stderr) = Txt("Error: must specify one mode: -dns, -subs, or -cname")
        /\ (\/ main.flags.dns /\ main.flags.subs
            \/ main.flags.dns /\ main.flags.cname
            \/ main.flags.subs /\ main.flags.cname) =>
              Head(stderr) = Txt("Error: cannot specify multiple modes")

C21_Witness ==
    /\ main.pc = "exited"
    /\ main.flags.subs
    /\ ~main.flags.dns
    /\ ~main.flags.cname
    /\ main.flags.l = 0
    /\ main.flags.r = -1
    /\ main.exit = 1
    /\ logger.file = "none"

C31_FetcherEchoesNothing ==
    \A i \in DOMAIN stderr : ~IsMetaLine(stderr[i])

\* a step in which the client issues a request
RequestStep == queries' # queries \/ Len(reqs') > Len(reqs)

\* C32: lastRequest changes only in makeRequest: a request whose transport
\* succeeded sets it to the current time whatever the status, a request whose
\* transport failed leaves it alone, it never decreases, and no other step
\* touches it; the first request of a fresh client and every request under
\* interval 0 go out without delay.
C32_LastRequest ==
    [][/\ c'.lastRequest >= c.lastRequest
       /\ ~RequestStep => c' = c
       /\ RequestStep =>
             /\ c' = [c EXCEPT !.lastRequest = c'.lastRequest]
             /\ lastOut'.net = "ok" => c'.lastRequest = now'
             /\ lastOut'.net = "fail" => c'.lastRequest = c.lastRequest
             /\ (c.lastRequest = 0 \/ c.RateLimit = 0) => issued'[2] = now]_vars

C32_Witness ==
    /\ c.RateLimit = 2
    /\ Len(reqs) = 3
    /\ lastOut.net = "fail"
    /\ c.lastRequest = issued[1]
    /\ issued[2] = issued[1] + 2
    /\ now = issued[2]

\* the body answered to the latest request, seen from the step that made it
NewBody == Respond(site, reqs'[Len(reqs')])

\* C33: each Parse gives a fresh result that depends on its own payload only:
\* the link and the counters of an earlier page do not carry over to a later
\* page parsed with the same parser (no Entries line: 0/0, no Next Page line:
\* no link), and parsing a later page leaves the result of the first page and
\* the parser as they are.
C33_FreshResult ==
    [][(queries' = queries /\ Len(reqs') > Len(reqs) /\ Succeeded(lastOut')) =>
         /\ q'.result = q.result
         /\ q'.parser = q.parser
         /\ q'.parser = NewResponseParser(q'.parser.Verbose)
         /\ lastCb' # "error" =>
               /\ q'.nextURL = Parse(q'.parser, NewBody).NextPageURL
               /\ MetaLinks(NewBody) = << >> => q'.nextURL = NoURL
         /\ MetaEntries(NewBody) = << >> =>
               /\ Parse(q'.parser, NewBody).CurrentCount = 0
               /\ Parse(q'.parser, NewBody).TotalCount = 0
         /\ variant = "callback" =>
               delivered'[Len(delivered')].results = NewPage.Data]_vars

C33_Witness ==
    /\ variant = "callback"
    /\ site = "offsite"
    /\ pc = "returned"
    /\ Len(reqs) = 2
    /\ Succeeded(lastOut)
    /\ q.result.NextPageURL # NoURL
    /\ q.nextURL = NoURL
    /\ ret.err = NoErr

\* the requests of the current query that were answered with a page
Answered == IF reqs = << >> \/ Succeeded(lastOut) THEN Len(reqs) ELSE Len(reqs) - 1

\* C34: queryWithCallback invokes the callback exactly once per page fetched,
\* in fetch order and before the next page is requested, with the page numbers
\* 1, 2, 3, ... and always the totalCount of the first page; page 1 gets its
\* callback under Limit > 0 and without data lines too; a request that failed
\* gets none.
C34_CallbackPerPage ==
    variant = "callback" =>
        /\ Len(delivered) = Answered
        /\ Len(reqs) <= Len(delivered) + 1
        /\ pc = "paging" => Len(delivered) = Len(reqs)
        /\ \A k \in DOMAIN delivered :
              /\ delivered[k].currentPage = k
              /\ delivered[k].results = PageOf(k).Data
              /\ delivered[k].totalResults = PageOf(1).TotalCount
        /\ lastCb = (IF ~Succeeded(lastOut) THEN "none"
                     ELSE IF ret.err = CallbackErr THEN "error" ELSE "ok")

C34_Witness ==
    /\ variant = "callback"
    /\ site = "nodata"
    /\ c.Limit = 2
    /\ pc = "returned"
    /\ delivered = <<Call(<< >>, 1, 0)>>
    /\ ret.err = NoErr

\* C35: when the callback returns an error for a page, queryWithCallback
\* returns that error at once: the query issues no further request and invokes
\* no further callback, and what was delivered stays delivered.
C35_CallbackError ==
    [][/\ lastCb' = "error" =>
             /\ pc' = "returned"
             /\ ret'.err = CallbackErr
             /\ Len(delivered') = Len(reqs')
             /\ queries' = queries =>
                   SubSeq(delivered', 1, Len(delivered)) = delivered
       /\ (lastCb = "error" /\ queries' = queries) =>
             /\ reqs' = reqs
             /\ delivered' = delivered
             /\ ret' = ret]_vars

C35_Witness ==
    /\ variant = "callback"
    /\ site = "chain"
    /\ lastCb = "error"
    /\ pc = "returned"
    /\ Len(reqs) = 2
    /\ Len(delivered) = 2
    /\ q.nextURL = MkURL(BaseURL, "/p2", 0)
    /\ ret.err = CallbackErr

\* the condition, the same for both fetchers, under which a query whose n
\* requests were all answered issues no further request
Stops(n) ==
    \/ c.Limit > 0
    \/ ~HasMore(PageOf(1))
    \/ PageOf(n).NextPageURL = NoURL
    \/ n >= MaxPages

\* C36 (as claimed): on runs without request failure the two fetchers are
\* equivalent: both issue the one sequence of URLs the responses determine,
\* and the data passed to the callbacks, concatenated, is the Data of a parse
\* of the text the string-returning fetcher returns.
C36_Equivalent ==
    (reqs # << >> /\ Succeeded(lastOut) /\ lastCb # "error") =>
        /\ reqs[1] = FirstURL(c, Endpoint(mode, "example.com"))
        /\ \A k \in 1..(Len(reqs) - 1) : reqs[k + 1] = PageOf(k).NextPageURL
        /\ pc = "returned" <=> Stops(Len(reqs))
        /\ (pc = "returned" /\ variant = "callback") =>
              DeliveredData(Len(delivered)) = FetchedData(Len(reqs))
        /\ (pc = "returned" /\ variant = "string") =>
              Parse(Quiet, ret.body).Data = FetchedData(Len(reqs))

\* C37 (as claimed): every request of a client goes to a URL that begins with
\* the client's BaseURL, whatever link a response holds.
C37_SameBase ==
    \A k \in DOMAIN reqs : reqs[k][1] = c.BaseURL

\* C38: makeRequest returns a body only for status 200; for every other
\* status, 204 included, it returns no body and an error that carries the
\* status code; it never returns a body together with an error.
C38_StatusOK ==
    reqs # << >> =>
        /\ lastRes.body # NoBody =>
              /\ lastOut.net = "ok"
              /\ lastOut.status = 200
              /\ lastRes.err = NoErr
        /\ (lastOut.net = "ok" /\ lastOut.status # 200) =>
              /\ lastRes.body = NoBody
              /\ lastRes.err # NoErr
              /\ lastRes.err.code = lastOut.status
        /\ (lastOut.net = "ok" /\ lastOut.status = 200 /\ lastOut.read = "ok") =>
              /\ lastRes.err = NoErr
              /\ lastRes.body = Respond(site, reqs[Len(reqs)])
        /\ lastRes.err # NoErr => lastRes.body = NoBody

C38_Witness ==
    /\ Len(reqs) = 2
    /\ lastOut.net = "ok"
    /\ lastOut.status = 204
    /\ lastRes = [body |-> NoBody, err |-> Err("status", 204)]
    /\ pc = "returned"

\* a line, as trimmed, that is empty or begins with '#'
EmptyOrComment(input) == IF input = << >> THEN TRUE ELSE input[1] = "#"

\* C39 (as claimed): a run that has only lines that are empty after trimming
\* or begin with '#' exits with code 0.
C39_OnlySkippedExitsZero ==
    (main.pc = "exited" /\ main.processed = 0) => main.exit = 0

\* C39 (amended): a line that is empty after trimming or begins with '#' is
\* skipped: no request, no log entry, no message, no output, no count of any
\* kind changes and the loop goes on; a run that has only such lines exits
\* with code 0 when its input ends without a read error, and with code 1 when
\* reading the input fails.
C39_SkippedLines ==
    [][/\ (main'.lineNo = main.lineNo + 1 /\ EmptyOrComment(main'.input)) =>
             /\ reqs' = reqs
             /\ queries' = queries
             /\ c' = c
             /\ issued' = issued
             /\ trace' = trace
             /\ logger' = logger
             /\ main'.logged = main.logged
             /\ main'.failureCount = main.failureCount
             /\ main'.processed = main.processed
             /\ main'.good = main.good
             /\ main'.stdout = << >>
             /\ stderr' = << >>
             /\ main'.pc = "loop"
       /\ (main'.pc = "exited" /\ main'.processed = 0) =>
             /\ main'.scan = "eof" => main'.exit = 0
             /\ main'.scan = "error" => main'.exit = 1]_vars

C39_Witness ==
    /\ main.pc = "exited"
    /\ main.scan = "eof"
    /\ main.lineNo = 2
    /\ main.input = <<"#", "a">>
    /\ main.processed = 0
    /\ main.logged = 0
    /\ queries = 0
    /\ main.exit = 0

====
